---- MODULE Spec2Model ----
(***************************************************************************)
(* A model of the template resolver of go-template-utils: the AES-CBC      *)
(* protect/decrypt functions, the concurrent decryption pipeline           *)
(* (processEncryptedStrs / decryptWrapper), the EncryptionConfig setter    *)
(* and validation, and the stages of ResolveTemplate.                      *)
(*                                                                         *)
(* Strings and byte slices are sequences of bytes (0..255); text is ASCII. *)
(***************************************************************************)
EXTENDS Integers, Sequences, FiniteSets, TLC

VARIABLES
    \* protect followed by decrypt, as two calls
    cstage,      \* "idle", "start", "protected", "decrypted"
    cplain,      \* the value given to protect
    cencCfg,     \* the EncryptionConfig of the resolver that runs protect
    cdecCfg,     \* the EncryptionConfig of the resolver that runs decrypt
    cprot,       \* what protect returned
    cdec,        \* what decrypt returned
    \* the resolver object and the calls that construct and configure it
    resolver,    \* the TemplateResolver: [isNil, config]
    ret,         \* the last call: [op, arg, delims, err]
    \* one call of processEncryptedStrs: the coordinator and its workers
    templateStr,       \* the argument
    cpc,               \* the coordinator's position
    submatches,        \* the fragments found, each << whole match, base64 >>
    numWorkers,
    pushed,            \* how many submatches were sent to submatchesChan
    submatchesChan,    \* [buf, closed]
    resultsChan,       \* [buf, closed]
    ctxDone,           \* the context was cancelled
    result,            \* the coordinator's loop variable
    processed,
    processedResults,
    passRet,           \* what processEncryptedStrs returned: [str, err, match]
    wpc,               \* each decryptWrapper goroutine's position
    wresult,           \* each decryptWrapper goroutine's result
    crashed,           \* the panic that aborted the process, "" for none
    received,          \* the results the coordinator has taken, in order
    \* one call of ResolveTemplate
    rpc,               \* the call's position
    tmplJSON,          \* the argument tmplJSON
    context,           \* the argument context: [kind, fields]
    ctx,               \* what getValidContext returned
    funcMap,           \* the names bound for the template, each to its function
    rTemplateStr,      \* the local templateStr
    tmpl,              \* the parsed template: a sequence of nodes
    buf,               \* what Execute has written
    resolveRet,        \* what ResolveTemplate returned: [doc, err]
    stages,            \* the stages run so far, each [stage, in, out, err]
    \* one call of a function that reads no resolver
    call,              \* the function and its arguments: [fn, text, startDelim, stopDelim, checkForEncrypted]
    callRet,           \* what it returned: [done, b, n, val, err]
    \* one call of ProcessTemplate of the template-resolver command
    ptpc,              \* the call's position
    ptArgs,            \* the arguments: [hubKubeConfigPath, clusterName, hubNS]
    policy,            \* the object read from the input: [kind, namespace, serviceAccountName, entries]
    hubNS,             \* the local hubNS
    hubTemplateOpts,   \* [opts |-> [ClusterScopedAllowList, LookupNamespace], ctx |-> [ManagedClusterName]]
    ptRet              \* what ProcessTemplate returned: [done, err]

cryptoVars == << cstage, cplain, cencCfg, cdecCfg, cprot, cdec >>

configVars == << resolver, ret >>

chanVars == << submatchesChan, resultsChan, ctxDone >>

coordVars == << cpc, submatches, numWorkers, pushed, result, processed,
                processedResults, passRet, received >>

workerVars == << wpc, wresult >>

pipeVars == << templateStr, chanVars, coordVars, workerVars, crashed >>

resolveVars == << rpc, tmplJSON, context, ctx, funcMap, rTemplateStr, tmpl, buf,
                 resolveRet, stages >>

cliVars == << ptpc, ptArgs, policy, hubNS, hubTemplateOpts, ptRet >>

callVars == << call, callRet, cliVars >>

vars == << cryptoVars, configVars, pipeVars, resolveVars, callVars >>

(***************************************************************************)
(* Bytes, strings                                                          *)
(***************************************************************************)

\* A Go []byte: nil is distinguished from an empty, non-nil slice.
NilSlice == [isNil |-> TRUE, b |-> <<>>]

Slice(bytes) == [isNil |-> FALSE, b |-> bytes]

\* bytes.Repeat([]byte{x}, n)
Repeat(x, n) == [i \in 1..n |-> x]

Min(a, b) == IF a < b THEN a ELSE b

\* The least element of a non-empty set of integers
Least(S) == CHOOSE x \in S : \A y \in S : x <= y

\* s[from:] for a 1-based position from
Tail2(s, from) == SubSeq(s, from, Len(s))

\* p occurs in s at the 1-based position at
OccursAt(s, p, at) == /\ at + Len(p) - 1 <= Len(s)
                      /\ \A i \in 1..Len(p) : s[at + i - 1] = p[i]

\* The first position >= at where p occurs in s, 0 when there is none
IndexFrom(s, p, at) ==
    LET found == { i \in at..(Len(s) - Len(p) + 1) : OccursAt(s, p, i) }
    IN  IF found = {} THEN 0 ELSE Least(found)

\* strings.Index(s, p) as a 1-based position, 0 when p does not occur in s
Index(s, p) == IndexFrom(s, p, 1)

\* strings.Contains(s, p)
Contains(s, p) == Index(s, p) # 0

\* strings.Replace(s, old, new, 1) for a non-empty old: the first occurrence of
\* old in s is replaced, a string without it is returned as it is.
ReplaceFirst(s, old, new) ==
    LET at == Index(s, old)
    IN  IF at = 0 THEN s
        ELSE SubSeq(s, 1, at - 1) \o new \o Tail2(s, at + Len(old))

(***************************************************************************)
(* Program constants                                                       *)
(***************************************************************************)

\* IVSize = 16, also aes.BlockSize
IVSize == 16

\* protectedPrefix = "$ocm_encrypted:"
protectedPrefix == <<36, 111, 99, 109, 95, 101, 110, 99, 114, 121, 112, 116, 101, 100, 58>>

(***************************************************************************)
(* encoding/base64, StdEncoding                                            *)
(***************************************************************************)

\* The character of the 6-bit value v in the standard alphabet A-Z a-z 0-9 + /
B64Char(v) == IF v < 26 THEN 65 + v
              ELSE IF v < 52 THEN 97 + (v - 26)
              ELSE IF v < 62 THEN 48 + (v - 52)
              ELSE IF v = 62 THEN 43 ELSE 47

\* The 6-bit value of character c, -1 for a character outside the alphabet
B64Val(c) == IF c >= 65 /\ c <= 90 THEN c - 65
             ELSE IF c >= 97 /\ c <= 122 THEN c - 97 + 26
             ELSE IF c >= 48 /\ c <= 57 THEN c - 48 + 52
             ELSE IF c = 43 THEN 62
             ELSE IF c = 47 THEN 63 ELSE -1

\* '='
B64Pad == 61

\* base64.StdEncoding.EncodeToString
RECURSIVE B64Encode(_)
B64Encode(bytes) ==
    IF Len(bytes) = 0 THEN <<>>
    ELSE IF Len(bytes) = 1 THEN
        << B64Char(bytes[1] \div 4), B64Char((bytes[1] % 4) * 16), B64Pad, B64Pad >>
    ELSE IF Len(bytes) = 2 THEN
        << B64Char(bytes[1] \div 4),
           B64Char((bytes[1] % 4) * 16 + bytes[2] \div 16),
           B64Char((bytes[2] % 16) * 4), B64Pad >>
    ELSE
        << B64Char(bytes[1] \div 4),
           B64Char((bytes[1] % 4) * 16 + bytes[2] \div 16),
           B64Char((bytes[2] % 16) * 4 + bytes[3] \div 64),
           B64Char(bytes[3] % 64) >> \o B64Encode(Tail2(bytes, 4))

\* Whether base64.StdEncoding.DecodeString accepts chars: quanta of four alphabet
\* characters, the last one possibly padded as xx== or xxx=.
B64Valid(chars) ==
    /\ Len(chars) % 4 = 0
    /\ \A i \in 1..Len(chars) :
          \/ B64Val(chars[i]) >= 0
          \/ /\ chars[i] = B64Pad
             /\ \/ i = Len(chars)
                \/ i = Len(chars) - 1 /\ chars[Len(chars)] = B64Pad

\* The bytes of an accepted string
RECURSIVE B64DecodeBytes(_)
B64DecodeBytes(chars) ==
    IF Len(chars) = 0 THEN <<>>
    ELSE LET v1 == B64Val(chars[1])
             v2 == B64Val(chars[2])
             v3 == B64Val(chars[3])
             v4 == B64Val(chars[4])
             b1 == v1 * 4 + v2 \div 16
             b2 == (v2 % 16) * 16 + v3 \div 4
             b3 == (v3 % 4) * 64 + v4
         IN  IF chars[3] = B64Pad THEN << b1 >>
             ELSE IF chars[4] = B64Pad THEN << b1, b2 >>
             ELSE << b1, b2, b3 >> \o B64DecodeBytes(Tail2(chars, 5))

(***************************************************************************)
(* crypto/aes and crypto/cipher: the block cipher is a keyed permutation   *)
(* of the 16-byte blocks, run in CBC mode                                  *)
(***************************************************************************)

\* aes.NewCipher(key) returns an error unless the key has 16, 24 or 32 bytes
ValidAESKey(key) == Len(key.b) \in {16, 24, 32}

RECURSIVE XorBits(_, _, _)
XorBits(a, b, n) == IF n = 0 THEN 0
                    ELSE ((a + b) % 2) + 2 * XorBits(a \div 2, b \div 2, n - 1)

\* a XOR b of two bytes
XorByte(a, b) == XorBits(a, b, 8)

XorBlock(x, y) == [i \in 1..IVSize |-> XorByte(x[i], y[i])]

KeyByte(key, i) == key[((i - 1) % Len(key)) + 1]

\* block.Encrypt: the bytes are rotated by one place and shifted by the key
EncryptBlock(key, blk) ==
    [i \in 1..IVSize |-> (blk[(i % IVSize) + 1] + KeyByte(key, i)) % 256]

\* block.Decrypt: the inverse permutation
DecryptBlock(key, blk) ==
    [j \in 1..IVSize |->
        LET i == ((j + IVSize - 2) % IVSize) + 1
        IN  (blk[i] + 256 - KeyByte(key, i)) % 256]

\* cipher.NewCBCEncrypter(block, iv).CryptBlocks(dst, src), len(src) a multiple
\* of the block size
RECURSIVE CBCEncrypt(_, _, _)
CBCEncrypt(key, iv, src) ==
    IF Len(src) = 0 THEN <<>>
    ELSE LET c == EncryptBlock(key, XorBlock(SubSeq(src, 1, IVSize), iv))
         IN  c \o CBCEncrypt(key, c, Tail2(src, IVSize + 1))

\* cipher.NewCBCDecrypter(block, iv).CryptBlocks(dst, src), len(src) a multiple
\* of the block size
RECURSIVE CBCDecrypt(_, _, _)
CBCDecrypt(key, iv, src) ==
    IF Len(src) = 0 THEN <<>>
    ELSE LET c == SubSeq(src, 1, IVSize)
         IN  XorBlock(DecryptBlock(key, c), iv) \o CBCDecrypt(key, c, Tail2(src, IVSize + 1))

(***************************************************************************)
(* Results of the functions that return (value, error) or panic            *)
(***************************************************************************)

Ok(v) == [kind |-> "ok", val |-> v, err |-> ""]

Err(e) == [kind |-> "err", val |-> <<>>, err |-> e]

\* A run-time panic: the goroutine, and with it the process, aborts.
Panic(e) == [kind |-> "panic", val |-> <<>>, err |-> e]

(***************************************************************************)
(* pkcs7Pad, pkcs7Unpad, protect, decrypt                                  *)
(***************************************************************************)

\* pkcs7Pad without the full block of padding for a value that is already aligned
pkcs7PadNoFullBlock(value, blockSize) ==
    LET paddingAmount == (blockSize - (Len(value) % blockSize)) % blockSize
    IN  value \o Repeat(paddingAmount % 256, paddingAmount)

\* pkcs7Pad that writes the block size as the padding byte
pkcs7PadBlockSizeByte(value, blockSize) ==
    value \o Repeat(blockSize % 256, blockSize - (Len(value) % blockSize))

pkcs7Pad(value, blockSize) ==
    LET paddingAmount == blockSize - (Len(value) % blockSize)
    IN  value \o Repeat(paddingAmount % 256, paddingAmount)

\* pkcs7Unpad that reads the padding length and not the padding bytes
pkcs7UnpadLengthOnly(paddedValue) ==
    IF Len(paddedValue) = 0 THEN Panic("index out of range")
    ELSE IF paddedValue[Len(paddedValue)] = 0 \/ paddedValue[Len(paddedValue)] > Len(paddedValue)
    THEN Err("ErrInvalidPKCS7Padding: the padding length is invalid")
    ELSE Ok(SubSeq(paddedValue, 1, Len(paddedValue) - paddedValue[Len(paddedValue)]))

pkcs7Unpad(paddedValue) ==
    IF Len(paddedValue) = 0 THEN Panic("index out of range")
    ELSE LET lastByte == paddedValue[Len(paddedValue)]
             numPaddingBytes == lastByte
         IN  IF numPaddingBytes = 0 \/ numPaddingBytes > Len(paddedValue)
             THEN Err("ErrInvalidPKCS7Padding: the padding length is invalid")
             ELSE IF \E i \in 2..numPaddingBytes :
                        paddedValue[Len(paddedValue) - i + 1] # lastByte
             THEN Err("ErrInvalidPKCS7Padding: not all the padding bytes match")
             ELSE Ok(SubSeq(paddedValue, 1, Len(paddedValue) - numPaddingBytes))

\* protect that pads and encrypts the empty value like any other
protectEveryValue(cfg, value) ==
    IF ~ValidAESKey(cfg.AESKey) THEN Err("ErrInvalidAESKey")
    ELSE IF Len(cfg.InitializationVector.b) # IVSize THEN Err("ErrInvalidIV")
    ELSE Ok(protectedPrefix
              \o B64Encode(CBCEncrypt(cfg.AESKey.b, cfg.InitializationVector.b,
                                      value \o Repeat(IVSize - (Len(value) % IVSize),
                                                      IVSize - (Len(value) % IVSize)))))

\* t.protect(value) under the EncryptionConfig cfg
protect(cfg, value) ==
    IF value = <<>> THEN Ok(value)
    ELSE IF ~ValidAESKey(cfg.AESKey) THEN Err("ErrInvalidAESKey")
    ELSE IF Len(cfg.InitializationVector.b) # IVSize THEN Err("ErrInvalidIV")
    ELSE LET valueBytes == pkcs7Pad(value, IVSize)
             encryptedValue == CBCEncrypt(cfg.AESKey.b, cfg.InitializationVector.b, valueBytes)
         IN  Ok(protectedPrefix \o B64Encode(encryptedValue))

\* t.decrypt(value) under the EncryptionConfig cfg
decrypt(cfg, value) ==
    IF ~B64Valid(value) THEN Err("ErrInvalidB64OfEncrypted")
    ELSE IF ~ValidAESKey(cfg.AESKey) THEN Err("ErrInvalidAESKey")
    ELSE IF Len(cfg.InitializationVector.b) # IVSize THEN Err("ErrInvalidIV")
    ELSE LET decodedValue == B64DecodeBytes(value)
         IN  IF Len(decodedValue) % IVSize # 0
             THEN Panic("crypto/cipher: input not full blocks")
             ELSE pkcs7Unpad(CBCDecrypt(cfg.AESKey.b, cfg.InitializationVector.b, decodedValue))

(***************************************************************************)
(* Inputs of the crypto functions                                          *)
(***************************************************************************)

\* The longest plaintext given to protect: two full blocks and one byte more
MaxPlainLen == 33

\* A plaintext of n bytes
PlainOf(n, seed) == [i \in 1..n |-> (i * seed + 31) % 256]

Plaintexts == { PlainOf(n, seed) : n \in 0..MaxPlainLen, seed \in {7, 250} }

\* An AES-128, an AES-192 and an AES-256 key
Key16 == Slice([i \in 1..16 |-> (i * 11 + 5) % 256])

Key24 == Slice([i \in 1..24 |-> (i * 29 + 101) % 256])

Key32 == Slice([i \in 1..32 |-> (i * 53 + 17) % 256])

ValidKeys == { Key16, Key24, Key32 }

\* A key of five bytes, which aes.NewCipher rejects
BadKey == Slice(<<1, 2, 3, 4, 5>>)

IV16 == Slice([i \in 1..16 |-> (i * 3 + 200) % 256])

IV16b == Slice([i \in 1..16 |-> (i * 17 + 9) % 256])

\* An initialization vector of 15 bytes
BadIV == Slice([i \in 1..15 |-> i])

EncCfg(key, fallback, iv, enc, dec, conc) ==
    [ AESKey |-> key, AESKeyFallback |-> fallback, DecryptionConcurrency |-> conc,
      DecryptionEnabled |-> dec, EncryptionEnabled |-> enc, InitializationVector |-> iv ]

\* The zero value of EncryptionConfig
ZeroEncCfg == EncCfg(NilSlice, NilSlice, NilSlice, FALSE, FALSE, 0)

\* The base64 payload of a value protect returned: what follows the prefix (the
\* value itself when protect returned it without the prefix).
Payload(s) == IF OccursAt(s, protectedPrefix, 1) THEN Tail2(s, Len(protectedPrefix) + 1) ELSE s

(***************************************************************************)
(* Config, NewResolver, SetEncryptionConfig, validateEncryptionConfig      *)
(***************************************************************************)

\* defaultStartDelim = "{{"
defaultStartDelim == <<123, 123>>

\* defaultStopDelim = "}}"
defaultStopDelim == <<125, 125>>

\* The policy-portal delimiters "{{hub" and "hub}}"
hubStartDelim == <<123, 123, 104, 117, 98>>

hubStopDelim == <<104, 117, 98, 125, 125>>

\* A Config value (KubeAPIResourceList, a cache, is left out)
Cfg(ec, startDelim, stopDelim, indentation, disabled, ns) ==
    [ AdditionalIndentation |-> indentation, DisabledFunctions |-> disabled,
      EncryptionConfig |-> ec, LookupNamespace |-> ns,
      StartDelim |-> startDelim, StopDelim |-> stopDelim ]

ZeroCfg == Cfg(ZeroEncCfg, <<>>, <<>>, 0, <<>>, "")

\* validateEncryptionConfig without the check of the IV's length
validateEncryptionConfigNoIVSize(encryptionConfig) ==
    IF encryptionConfig.EncryptionEnabled \/ encryptionConfig.DecryptionEnabled
    THEN IF encryptionConfig.AESKey.isNil THEN "ErrAESKeyNotSet"
         ELSE IF ~ValidAESKey(encryptionConfig.AESKey) THEN "ErrInvalidAESKey"
         ELSE IF /\ ~encryptionConfig.AESKeyFallback.isNil
                 /\ ~ValidAESKey(encryptionConfig.AESKeyFallback) THEN "ErrInvalidAESKey"
         ELSE IF encryptionConfig.InitializationVector.isNil THEN "ErrIVNotSet"
         ELSE "nil"
    ELSE "nil"

\* validateEncryptionConfig: the error returned, "nil" for none
validateEncryptionConfig(encryptionConfig) ==
    IF encryptionConfig.EncryptionEnabled \/ encryptionConfig.DecryptionEnabled
    THEN IF encryptionConfig.AESKey.isNil THEN "ErrAESKeyNotSet"
         ELSE IF ~ValidAESKey(encryptionConfig.AESKey) THEN "ErrInvalidAESKey"
         ELSE IF /\ ~encryptionConfig.AESKeyFallback.isNil
                 /\ ~ValidAESKey(encryptionConfig.AESKeyFallback) THEN "ErrInvalidAESKey"
         ELSE IF encryptionConfig.InitializationVector.isNil THEN "ErrIVNotSet"
         ELSE IF Len(encryptionConfig.InitializationVector.b) # IVSize THEN "ErrInvalidIV"
         ELSE "nil"
    ELSE "nil"

\* NewResolver that refuses a start delimiter without a stop delimiter, and
\* not the reverse
NewResolverResultStartOnly(kubeClientIsNil, config) ==
    IF kubeClientIsNil
    THEN [t |-> [isNil |-> TRUE, config |-> ZeroCfg], err |-> "kubeClient must be a non-nil value"]
    ELSE IF validateEncryptionConfig(config.EncryptionConfig) # "nil"
    THEN [t |-> [isNil |-> TRUE, config |-> ZeroCfg],
          err |-> "error validating EncryptionConfig"]
    ELSE IF config.StartDelim # <<>> /\ config.StopDelim = <<>>
    THEN [t |-> [isNil |-> TRUE, config |-> ZeroCfg],
          err |-> "StartDelim and StopDelim cannot be set independently"]
    ELSE [t |-> [isNil |-> FALSE,
                 config |-> IF config.StartDelim = <<>>
                            THEN [config EXCEPT !.StartDelim = defaultStartDelim,
                                                !.StopDelim = defaultStopDelim]
                            ELSE config],
          err |-> "nil"]

\* NewResolver(kubeClient, kubeConfig, config): [t |-> the resolver returned, err]
NewResolverResult(kubeClientIsNil, config) ==
    IF kubeClientIsNil
    THEN [t |-> [isNil |-> TRUE, config |-> ZeroCfg], err |-> "kubeClient must be a non-nil value"]
    ELSE IF validateEncryptionConfig(config.EncryptionConfig) # "nil"
    THEN [t |-> [isNil |-> TRUE, config |-> ZeroCfg],
          err |-> "error validating EncryptionConfig"]
    ELSE IF \/ config.StartDelim # <<>> /\ config.StopDelim = <<>>
            \/ config.StartDelim = <<>> /\ config.StopDelim # <<>>
    THEN [t |-> [isNil |-> TRUE, config |-> ZeroCfg],
          err |-> "StartDelim and StopDelim cannot be set independently"]
    ELSE [t |-> [isNil |-> FALSE,
                 config |-> IF config.StartDelim = <<>>
                            THEN [config EXCEPT !.StartDelim = defaultStartDelim,
                                                !.StopDelim = defaultStopDelim]
                            ELSE config],
          err |-> "nil"]

\* SetEncryptionConfig that assigns before it validates
SetEncryptionConfigAssignFirst(t, encryptionConfig) ==
    [t |-> [t EXCEPT !.config.EncryptionConfig = encryptionConfig],
     err |-> validateEncryptionConfig(encryptionConfig)]

\* t.SetEncryptionConfig(encryptionConfig): [t |-> the resolver afterwards, err]
SetEncryptionConfigResult(t, encryptionConfig) ==
    LET err == validateEncryptionConfig(encryptionConfig)
    IN  IF err # "nil" THEN [t |-> t, err |-> err]
        ELSE [t |-> [t EXCEPT !.config.EncryptionConfig = encryptionConfig], err |-> "nil"]

\* The EncryptionConfig values given to NewResolver and SetEncryptionConfig: with
\* each combination of the two flags, the well-formed ones (with and without a
\* fallback key) and those with one field unset or malformed.
EncCfgPool ==
    { EncCfg(c[1], c[2], c[3], enc, dec, 0) :
        c \in { <<Key16, NilSlice, IV16>>, <<Key16, Key24, IV16>>,
                <<NilSlice, NilSlice, IV16>>, <<BadKey, NilSlice, IV16>>,
                <<Key16, BadKey, IV16>>, <<Key16, NilSlice, NilSlice>>,
                <<Key16, Key24, BadIV>> },
        enc \in BOOLEAN, dec \in BOOLEAN }

\* The Config values given to NewResolver
CfgPool ==
    { Cfg(ec, d[1], d[2], r[1], r[2], r[3]) :
        ec \in EncCfgPool,
        d \in { <<sd, ed>> : sd \in {<<>>, hubStartDelim}, ed \in {<<>>, hubStopDelim} },
        r \in { <<0, <<>>, "">>, <<2, <<"fromSecret">>, "policies">> } }

(***************************************************************************)
(* processEncryptedStrs and decryptWrapper                                 *)
(***************************************************************************)

\* The character class [a-zA-Z0-9+/=]
IsB64Class(c) == B64Val(c) >= 0 \/ c = B64Pad

\* The last position of the run of class characters that starts at at, at - 1
\* when there is none
ClassRunEnd(s, at) == Least({ i \in at..Len(s) : ~IsB64Class(s[i]) } \cup { Len(s) + 1 }) - 1

\* The matches of \$ocm_encrypted:([a-zA-Z0-9+/=]+) in s from position at on,
\* leftmost first, each greedy, none overlapping: << whole match, submatch 1 >>
RECURSIVE FindAllFrom(_, _)
FindAllFrom(s, at) ==
    LET i == IndexFrom(s, protectedPrefix, at)
        start == i + Len(protectedPrefix)
        end == ClassRunEnd(s, start)
    IN  IF i = 0 THEN <<>>
        ELSE IF end < start THEN FindAllFrom(s, i + 1)
        ELSE << << SubSeq(s, i, end), SubSeq(s, start, end) >> >> \o FindAllFrom(s, end + 1)

\* re.FindAllStringSubmatch(templateStr, -1)
FindAllStringSubmatch(s) == FindAllFrom(s, 1)

\* The number of goroutines as DecryptionConcurrency alone gives it
NumWorkersOfConcurrency(concurrency, n) ==
    IF concurrency <= 1 THEN 1 ELSE concurrency

\* numWorkers for n submatches
NumWorkers(concurrency, n) ==
    IF concurrency <= 1 THEN 1
    ELSE IF n > concurrency THEN concurrency
    ELSE n

\* A channel without a buffer
MakeChanUnbuffered(capacity) == [buf |-> <<>>, closed |-> FALSE, cap |-> 0]

\* make(chan T, capacity)
MakeChan(capacity) == [buf |-> <<>>, closed |-> FALSE, cap |-> capacity]

NoChan == MakeChan(0)

\* The zero decryptResult
NoResult == [match |-> <<>>, plaintext |-> <<>>, err |-> "nil"]

\* The decryptResult that decryptWrapper builds from what decrypt returned
WrapResult(submatch, r) ==
    IF r.kind = "err" THEN [match |-> submatch[1], plaintext |-> <<>>, err |-> r.err]
    ELSE [match |-> submatch[1], plaintext |-> r.val, err |-> "nil"]

NoReturn == [str |-> <<>>, err |-> "nil", match |-> <<>>]

\* The error return that hands back the text processed so far
ErrorReturnPartial(text, res) ==
    [str |-> text, err |-> res.err, match |-> res.match]

\* return "", fmt.Errorf("decryption of %s failed: %w", result.match, result.err)
ErrorReturn(text, res) ==
    [str |-> <<>>, err |-> res.err, match |-> res.match]

\* processed = strings.Replace(processed, result.match, result.plaintext, 1)
ApplyResult(text, res) == ReplaceFirst(text, res.match, res.plaintext)

PipeIdle ==
    /\ templateStr = <<>>
    /\ cpc = "idle"
    /\ submatches = <<>>
    /\ numWorkers = 0
    /\ pushed = 0
    /\ submatchesChan = NoChan
    /\ resultsChan = NoChan
    /\ ctxDone = FALSE
    /\ result = NoResult
    /\ processed = <<>>
    /\ processedResults = 0
    /\ passRet = NoReturn
    /\ wpc = <<>>
    /\ wresult = <<>>
    /\ crashed = ""
    /\ received = <<>>

\* Whether the coordinator can take a step: it is not blocked sending to
\* submatchesChan or receiving from resultsChan, has not returned, and the
\* process has not been aborted by a panic.
CoordinatorCanStep ==
    /\ crashed = ""
    /\ \/ cpc \in {"start", "cancel", "errCloseSubmatches", "closeSubmatches",
                   "errCloseResults", "closeResults", "errReturn"}
       \/ cpc = "push" /\ Len(submatchesChan.buf) < submatchesChan.cap
       \/ cpc = "range" /\ (resultsChan.buf # <<>> \/ resultsChan.closed)

\* Whether goroutine w can take a step: a receive from submatchesChan proceeds
\* with a value buffered or the channel closed; of the select, the ctx.Done()
\* case proceeds once the context is cancelled and the send proceeds with room
\* in the buffer or, by panicking, on the closed channel.
WorkerCanStep(w) ==
    /\ crashed = ""
    /\ \/ wpc[w] = "range" /\ (submatchesChan.buf # <<>> \/ submatchesChan.closed)
       \/ wpc[w] = "select" /\ ctxDone
       \/ wpc[w] = "select" /\ (resultsChan.closed \/ Len(resultsChan.buf) < resultsChan.cap)

\* processEncryptedStrs up to the start of the goroutines: the fragments are
\* found; without any the text is returned, otherwise the channels and the
\* context are made and numWorkers goroutines started.
Discover ==
    /\ cpc = "start"
    /\ CoordinatorCanStep
    /\ LET sm == FindAllStringSubmatch(templateStr)
           n == NumWorkers(resolver.config.EncryptionConfig.DecryptionConcurrency, Len(sm))
       IN  /\ submatches' = sm
           /\ IF Len(sm) = 0
              THEN /\ cpc' = "returned"
                   /\ passRet' = [str |-> templateStr, err |-> "nil", match |-> <<>>]
                   /\ UNCHANGED << numWorkers, chanVars, workerVars >>
              ELSE /\ cpc' = "push"
                   /\ numWorkers' = n
                   /\ submatchesChan' = MakeChan(Len(sm))
                   /\ resultsChan' = MakeChan(Len(sm))
                   /\ ctxDone' = FALSE
                   /\ wpc' = [w \in 1..n |-> "range"]
                   /\ wresult' = [w \in 1..n |-> NoResult]
                   /\ UNCHANGED passRet
    /\ UNCHANGED << templateStr, pushed, result, processed, processedResults, received,
                    crashed, cryptoVars, callVars, configVars, resolveVars >>

\* submatchesChan <- submatch, for each submatch in turn; then processed and
\* processedResults are set up for the loop over the results.
Push ==
    /\ cpc = "push"
    /\ CoordinatorCanStep
    /\ Len(submatchesChan.buf) < submatchesChan.cap
    /\ submatchesChan' = [submatchesChan EXCEPT !.buf = Append(@, submatches[pushed + 1])]
    /\ pushed' = pushed + 1
    /\ IF pushed + 1 = Len(submatches)
       THEN /\ cpc' = "range"
            /\ processed' = templateStr
            /\ processedResults' = 0
       ELSE UNCHANGED << cpc, processed, processedResults >>
    /\ UNCHANGED << templateStr, submatches, numWorkers, resultsChan, ctxDone, result,
                    passRet, received, workerVars, crashed, cryptoVars, callVars, configVars, resolveVars >>

\* for result := range resultsChan, one result taken: a failed one leads to the
\* cancellation, any other is substituted into processed.
RecvResult ==
    /\ cpc = "range"
    /\ CoordinatorCanStep
    /\ resultsChan.buf # <<>>
    /\ LET res == Head(resultsChan.buf)
       IN  /\ result' = res
           /\ received' = Append(received, res)
           /\ resultsChan' = [resultsChan EXCEPT !.buf = Tail(@)]
           /\ IF res.err # "nil"
              THEN /\ cpc' = "cancel"
                   /\ UNCHANGED << processed, processedResults >>
              ELSE /\ processed' = ApplyResult(processed, res)
                   /\ processedResults' = processedResults + 1
                   /\ cpc' = IF processedResults + 1 = Len(submatches)
                             THEN "closeSubmatches" ELSE "range"
    /\ UNCHANGED << templateStr, submatches, numWorkers, pushed, submatchesChan, ctxDone,
                    passRet, workerVars, crashed, cryptoVars, callVars, configVars, resolveVars >>

\* cancel() in the error branch
Cancel ==
    /\ cpc = "cancel"
    /\ CoordinatorCanStep
    /\ ctxDone' = TRUE
    /\ cpc' = "errCloseSubmatches"
    /\ UNCHANGED << templateStr, submatches, numWorkers, pushed, submatchesChan, resultsChan,
                    result, processed, processedResults, passRet, received, workerVars,
                    crashed, cryptoVars, callVars, configVars, resolveVars >>

\* close(submatchesChan), in the error branch and after the last result
CloseSubmatches ==
    /\ cpc \in {"errCloseSubmatches", "closeSubmatches"}
    /\ CoordinatorCanStep
    /\ submatchesChan' = [submatchesChan EXCEPT !.closed = TRUE]
    /\ cpc' = IF cpc = "errCloseSubmatches" THEN "errCloseResults" ELSE "closeResults"
    /\ UNCHANGED << templateStr, submatches, numWorkers, pushed, resultsChan, ctxDone,
                    result, processed, processedResults, passRet, received, workerVars,
                    crashed, cryptoVars, callVars, configVars, resolveVars >>

\* close(resultsChan), in the error branch and after the last result
CloseResults ==
    /\ cpc \in {"errCloseResults", "closeResults"}
    /\ CoordinatorCanStep
    /\ resultsChan' = [resultsChan EXCEPT !.closed = TRUE]
    /\ cpc' = IF cpc = "errCloseResults" THEN "errReturn" ELSE "range"
    /\ UNCHANGED << templateStr, submatches, numWorkers, pushed, submatchesChan, ctxDone,
                    result, processed, processedResults, passRet, received, workerVars,
                    crashed, cryptoVars, callVars, configVars, resolveVars >>

\* return "", fmt.Errorf("decryption of %s failed: %w", result.match, result.err)
ErrReturn ==
    /\ cpc = "errReturn"
    /\ CoordinatorCanStep
    /\ passRet' = ErrorReturn(processed, result)
    /\ cpc' = "returned"
    /\ UNCHANGED << templateStr, submatches, numWorkers, pushed, chanVars, result,
                    processed, processedResults, received, workerVars, crashed,
                    cryptoVars, callVars, configVars, resolveVars >>

\* The loop over resultsChan ends on the closed, drained channel: return
\* processed, nil (the deferred cancel() runs).
RangeEnd ==
    /\ cpc = "range"
    /\ CoordinatorCanStep
    /\ resultsChan.buf = <<>>
    /\ resultsChan.closed
    /\ passRet' = [str |-> processed, err |-> "nil", match |-> <<>>]
    /\ ctxDone' = TRUE
    /\ cpc' = "returned"
    /\ UNCHANGED << templateStr, submatches, numWorkers, pushed, submatchesChan, resultsChan,
                    result, processed, processedResults, received, workerVars, crashed,
                    cryptoVars, callVars, configVars, resolveVars >>

\* decryptWrapper, for submatch := range submatches: the next submatch is taken
\* and decrypted (a panic in decrypt aborts the process); on the closed, drained
\* channel the goroutine returns.
WorkerRange(w) ==
    /\ wpc[w] = "range"
    /\ WorkerCanStep(w)
    /\ IF submatchesChan.buf # <<>>
       THEN LET submatch == Head(submatchesChan.buf)
                r == decrypt(resolver.config.EncryptionConfig, submatch[2])
            IN  /\ submatchesChan' = [submatchesChan EXCEPT !.buf = Tail(@)]
                /\ IF r.kind = "panic"
                   THEN /\ crashed' = r.err
                        /\ wpc' = [wpc EXCEPT ![w] = "panicked"]
                        /\ UNCHANGED wresult
                   ELSE /\ wresult' = [wresult EXCEPT ![w] = WrapResult(submatch, r)]
                        /\ wpc' = [wpc EXCEPT ![w] = "select"]
                        /\ UNCHANGED crashed
       ELSE /\ submatchesChan.closed
            /\ wpc' = [wpc EXCEPT ![w] = "exited"]
            /\ UNCHANGED << submatchesChan, wresult, crashed >>
    /\ UNCHANGED << templateStr, resultsChan, ctxDone, coordVars, cryptoVars, callVars, configVars, resolveVars >>

\* select, case <-ctx.Done(): return
WorkerSelectDone(w) ==
    /\ wpc[w] = "select"
    /\ WorkerCanStep(w)
    /\ ctxDone
    /\ wpc' = [wpc EXCEPT ![w] = "exited"]
    /\ UNCHANGED << templateStr, chanVars, coordVars, wresult, crashed, cryptoVars, callVars, configVars, resolveVars >>

\* select, case results <- result: the send proceeds when the buffer has room,
\* and on a closed channel it proceeds by panicking. select takes any case that
\* can proceed.
WorkerSelectSend(w) ==
    /\ wpc[w] = "select"
    /\ WorkerCanStep(w)
    /\ IF resultsChan.closed
       THEN /\ crashed' = "send on closed channel"
            /\ wpc' = [wpc EXCEPT ![w] = "panicked"]
            /\ UNCHANGED resultsChan
       ELSE /\ Len(resultsChan.buf) < resultsChan.cap
            /\ resultsChan' = [resultsChan EXCEPT !.buf = Append(@, wresult[w])]
            /\ wpc' = [wpc EXCEPT ![w] = "range"]
            /\ UNCHANGED crashed
    /\ UNCHANGED << templateStr, submatchesChan, ctxDone, coordVars, wresult,
                    cryptoVars, callVars, configVars, resolveVars >>

PipeNext ==
    \/ Discover
    \/ Push
    \/ RecvResult
    \/ Cancel
    \/ CloseSubmatches
    \/ CloseResults
    \/ ErrReturn
    \/ RangeEnd
    \/ \E w \in DOMAIN wpc : WorkerRange(w)
    \/ \E w \in DOMAIN wpc : WorkerSelectDone(w)
    \/ \E w \in DOMAIN wpc : WorkerSelectSend(w)

(***************************************************************************)
(* ResolveTemplate: text, and the YAML and JSON codecs on the documents    *)
(* that are resolved here: one mapping from keys to strings, in printable  *)
(* ASCII and line feeds.                                                   *)
(***************************************************************************)

\* yamlIndentation = 2
yamlIndentation == 2

\* "\n"
NL == <<10>>

\* The strings of a sequence, concatenated
RECURSIVE Join(_)
Join(seqs) ==
    IF seqs = <<>> THEN <<>>
    ELSE IF Len(seqs) = 1 THEN seqs[1]
    ELSE LET half == Len(seqs) \div 2
         IN  Join(SubSeq(seqs, 1, half)) \o Join(SubSeq(seqs, half + 1, Len(seqs)))

\* a < b in the order of bytes
RECURSIVE Less(_, _)
Less(a, b) ==
    IF b = <<>> THEN FALSE
    ELSE IF a = <<>> THEN TRUE
    ELSE IF Head(a) # Head(b) THEN Head(a) < Head(b)
    ELSE Less(Tail(a), Tail(b))

\* The decimal digits of n >= 0
RECURSIVE Digits(_)
Digits(n) == IF n < 10 THEN << 48 + n >> ELSE Digits(n \div 10) \o << 48 + (n % 10) >>

\* strconv.Itoa, fmt's %d
Itoa(n) == IF n < 0 THEN <<45>> \o Digits(-n) ELSE Digits(n)

\* strings.Split(s, "\n")
RECURSIVE SplitLines(_)
SplitLines(s) ==
    LET at == Index(s, NL)
    IN  IF at = 0 THEN << s >>
        ELSE << SubSeq(s, 1, at - 1) >> \o SplitLines(Tail2(s, at + 1))

\* strings.Replace(s, old, new, -1) for a non-empty old
RECURSIVE ReplaceEvery(_, _, _)
ReplaceEvery(s, old, new) ==
    LET at == Index(s, old)
    IN  IF at = 0 THEN s
        ELSE SubSeq(s, 1, at - 1) \o new \o ReplaceEvery(Tail2(s, at + Len(old)), old, new)

\* A conversion that failed
CodecFail == [ok |-> FALSE, val |-> <<>>, next |-> 0, members |-> <<>>]

\* The position where the run of the character c that ends before position i
\* starts, not before lo
RunStart(s, c, lo, i) == Least({ j \in lo..i : \A k \in j..(i - 1) : s[k] = c })

\* The double-quoted string whose characters start at at, on one line: its
\* value and the position after its closing quote. A character is escaped
\* when an odd number of backslashes runs up to it; the escapes are
\* \" \\ \/ and \n.
QuotedString(s, at) ==
    LET Escaped(i) == (i - RunStart(s, 92, at, i)) % 2 = 1
        Char(i) == IF Escaped(i) THEN IF s[i] = 110 THEN <<10>> ELSE << s[i] >>
                   ELSE IF s[i] = 92 THEN <<>>
                   ELSE << s[i] >>
        Bad(end) == \E i \in at..(end - 1) : \/ Escaped(i) /\ s[i] \notin {34, 92, 47, 110}
                                             \/ s[i] = 10
        Closed(end) ==
            IF Bad(end) THEN CodecFail
            ELSE [CodecFail EXCEPT !.ok = TRUE, !.next = end + 1,
                                   !.val = Join([k \in 1..(end - at) |-> Char(at + k - 1)])]
        Scan(closing) == IF closing = {} THEN CodecFail ELSE Closed(Least(closing))
    IN  Scan({ i \in at..Len(s) : s[i] = 34 /\ ~Escaped(i) })

\* The members "key":"value" of a JSON object from position at, the opening
\* quote of a key, up to the closing brace that ends the text
RECURSIVE JSONMembers(_, _, _)
JSONMembers(s, at, acc) ==
    LET Value(k, v) ==
            IF ~v.ok \/ v.next > Len(s) THEN CodecFail
            ELSE IF \E i \in 1..Len(acc) : acc[i][1] = k.val THEN CodecFail
            ELSE IF s[v.next] = 44
                 THEN JSONMembers(s, v.next + 1, Append(acc, << k.val, v.val >>))
            ELSE IF s[v.next] = 125 /\ v.next = Len(s)
                 THEN [CodecFail EXCEPT !.ok = TRUE,
                                        !.members = Append(acc, << k.val, v.val >>)]
            ELSE CodecFail
        Key(k) ==
            IF ~k.ok \/ k.next + 1 > Len(s) \/ s[k.next] # 58 \/ s[k.next + 1] # 34
            THEN CodecFail
            ELSE Value(k, QuotedString(s, k.next + 2))
    IN  IF at > Len(s) \/ s[at] # 34 THEN CodecFail
        ELSE Key(QuotedString(s, at + 1))

\* yaml.Unmarshal(j, &jsonObj) of a JSON object of strings: its members, or the
\* failure on a text that is cut short or has a key twice
UnmarshalObject(j) ==
    IF j = <<123, 125>> THEN [CodecFail EXCEPT !.ok = TRUE]
    ELSE IF Len(j) >= 2 /\ j[1] = 123 THEN JSONMembers(j, 2, <<>>)
    ELSE CodecFail

\* The members in the order of their keys, as the encoders emit a map
RECURSIVE InsertMember(_, _)
InsertMember(sorted, mem) ==
    IF sorted = <<>> THEN << mem >>
    ELSE IF Less(mem[1], Head(sorted)[1]) THEN << mem >> \o sorted
    ELSE << Head(sorted) >> \o InsertMember(Tail(sorted), mem)

RECURSIVE SortMembers(_)
SortMembers(members) ==
    IF members = <<>> THEN <<>>
    ELSE InsertMember(SortMembers(Tail(members)), Head(members))

IsDigit(c) == c >= 48 /\ c <= 57

\* [-+]?[0-9]+
IsDecimalInt(v) ==
    LET d == IF v # <<>> /\ v[1] \in {43, 45} THEN Tail(v) ELSE v
    IN  d # <<>> /\ \A i \in 1..Len(d) : IsDigit(d[i])

\* The value of the decimal digits d
RECURSIVE DigitsValue(_, _)
DigitsValue(d, acc) == IF d = <<>> THEN acc ELSE DigitsValue(Tail(d), acc * 10 + (Head(d) - 48))

\* The integer that [-+]?[0-9]+ denotes
DecimalValue(v) ==
    IF v[1] = 45 THEN -DigitsValue(Tail(v), 0)
    ELSE IF v[1] = 43 THEN DigitsValue(Tail(v), 0)
    ELSE DigitsValue(v, 0)

\* The tag yaml.v3 resolves a plain scalar to: !!null for the empty scalar, ~
\* and null, !!bool for true and false, !!int for a decimal integer, else
\* !!str; the documents hold no floats, timestamps or integers in another base
ResolveTag(v) ==
    LET YAMLNullWords == { <<126>>,
                           <<110, 117, 108, 108>>,
                           <<78, 117, 108, 108>>,
                           <<78, 85, 76, 76>> }
        YAMLBoolWords == { <<116, 114, 117, 101>>,
                           <<84, 114, 117, 101>>,
                           <<84, 82, 85, 69>>,
                           <<102, 97, 108, 115, 101>>,
                           <<70, 97, 108, 115, 101>>,
                           <<70, 65, 76, 83, 69>> }
    IN  IF v = <<>> \/ v \in YAMLNullWords THEN "null"
        ELSE IF v \in YAMLBoolWords THEN "bool"
        ELSE IF IsDecimalInt(v) THEN "int"
        ELSE "str"

\* The character at i is followed by a blank, a break or the end of the scalar
FollowedByBlank(v, i) == i = Len(v) \/ v[i + 1] \in {32, 9, 10}

\* The emitter's analysis of a one-line scalar: whether the plain style is
\* allowed in a block mapping. The characters that, first in a scalar, rule it
\* out are # , [ ] { } & * ! | > ' " % @ `
BlockPlainAllowed(v) ==
    LET FirstIndicators == {35, 44, 91, 93, 123, 125, 38, 42, 33, 124, 62, 39, 34, 37, 64, 96}
    IN  /\ v # <<>>
        /\ v[1] # 32
        /\ v[Len(v)] # 32
        /\ v[1] \notin FirstIndicators
        /\ ~(v[1] \in {63, 58, 45} /\ FollowedByBlank(v, 1))
        /\ ~(Len(v) >= 3 /\ SubSeq(v, 1, 3) \in { <<45, 45, 45>>, <<46, 46, 46>> })
        /\ \A i \in 2..Len(v) :
              /\ ~(v[i] = 58 /\ FollowedByBlank(v, i))
              /\ ~(v[i] = 35 /\ v[i - 1] = 32)
        /\ \A i \in 1..Len(v) : v[i] >= 32 /\ v[i] <= 126

\* "v" with \ and " escaped
DoubleQuoted(v) ==
    <<34>> \o ReplaceEvery(ReplaceEvery(v, <<92>>, <<92, 92>>), <<34>>, <<92, 34>>) \o <<34>>

\* An encoder that never double-quotes: a one-line string is plain when the
\* plain style is allowed, whatever it resolves to, and single-quoted otherwise
EncodeStringUnquoted(v) ==
    IF BlockPlainAllowed(v) THEN v \o NL
    ELSE <<39>> \o ReplaceEvery(v, <<39>>, <<39, 39>>) \o <<39>> \o NL

\* A string as the encoder emits it in a block mapping: literal with a line
\* feed, plain when it resolves to a string and the plain style is allowed,
\* single-quoted when only the style is not allowed, else double-quoted. The
\* literal block is the header | with the chomping indicator and then the
\* lines, indented; the single-quoted style doubles each '; the YAML 1.1
\* booleans are quoted (isOldBool).
EncodeString(v) ==
    LET YAMLOldBoolWords ==
            { <<121>>, <<89>>, <<121, 101, 115>>, <<89, 101, 115>>, <<89, 69, 83>>,
              <<111, 110>>, <<79, 110>>, <<79, 78>>,
              <<110>>, <<78>>, <<110, 111>>, <<78, 111>>, <<78, 79>>,
              <<111, 102, 102>>, <<79, 102, 102>>, <<79, 70, 70>> }
        SingleQuoted == <<39>> \o ReplaceEvery(v, <<39>>, <<39, 39>>) \o <<39>>
        endsNL == v[Len(v)] = 10
        chomp == IF ~endsNL THEN <<45>>
                 ELSE IF Len(v) >= 2 /\ v[Len(v) - 1] = 10 THEN <<43>>
                 ELSE <<>>
        Line(l) == IF l = <<>> THEN NL ELSE Repeat(32, yamlIndentation) \o l \o NL
        Body(lines) == Join([i \in 1..Len(lines) |-> Line(lines[i])])
        Lines(lines) == Body(IF endsNL THEN SubSeq(lines, 1, Len(lines) - 1) ELSE lines)
        LiteralBlock == <<124>> \o chomp \o NL \o Lines(SplitLines(v))
    IN  IF Contains(v, NL) THEN LiteralBlock
        ELSE IF ResolveTag(v) = "str" /\ v \notin YAMLOldBoolWords
             THEN IF BlockPlainAllowed(v) THEN v \o NL ELSE SingleQuoted \o NL
        ELSE DoubleQuoted(v) \o NL

\* yamlEncoder.Encode(&jsonObj) of a map of strings: its entries, by key
EncodeObject(members) ==
    LET Key(k) == IF ResolveTag(k) = "str" /\ BlockPlainAllowed(k) THEN k ELSE DoubleQuoted(k)
        Entry(mem) == Key(mem[1]) \o <<58, 32>> \o EncodeString(mem[2])
        Entries(sorted) == Join([i \in 1..Len(sorted) |-> Entry(sorted[i])])
    IN  IF members = <<>> THEN <<123, 125, 10>>
        ELSE Entries(SortMembers(members))

\* jsonToYAML
jsonToYAML(j) ==
    LET Encoded(obj) == IF ~obj.ok THEN Err("yaml: unmarshal") ELSE Ok(EncodeObject(obj.members))
    IN  Encoded(UnmarshalObject(j))

\* strings.TrimRight(s, " ")
RECURSIVE TrimRightSpaces(_)
TrimRightSpaces(s) ==
    IF s # <<>> /\ s[Len(s)] = 32 THEN TrimRightSpaces(SubSeq(s, 1, Len(s) - 1)) ELSE s

\* strings.TrimLeft(s, " ")
RECURSIVE TrimLeftSpaces(_)
TrimLeftSpaces(s) == IF s # <<>> /\ s[1] = 32 THEN TrimLeftSpaces(Tail(s)) ELSE s

\* The single-quoted scalar whose characters start at at: its value and the
\* position after its closing quote; '' stands for one quote, so that the
\* closing quote is the last of a run of quotes of odd length
SingleQuotedString(s, at) ==
    LET Closed(end) ==
            [CodecFail EXCEPT !.ok = TRUE, !.next = end + 1,
                              !.val = ReplaceEvery(SubSeq(s, at, end - 1), <<39, 39>>, <<39>>)]
        Scan(closing) == IF closing = {} THEN CodecFail ELSE Closed(Least(closing))
    IN  Scan({ i \in at..Len(s) : /\ s[i] = 39
                                  /\ (i = Len(s) \/ s[i + 1] # 39)
                                  /\ (i - RunStart(s, 39, at, i)) % 2 = 0 })

\* A scalar of a decoded document
YAMLValue(tag, s) == [tag |-> tag, s |-> s]

\* A decoding: of a value, of an entry, of a document
Decoded(v) == [kind |-> "ok", v |-> v, err |-> ""]

DecodeError == [kind |-> "err", v |-> <<>>, err |-> "yaml: unmarshal"]

\* A text that is YAML of another shape than the documents modelled here
DecodeOther == [kind |-> "err", v |-> <<>>, err |-> "yaml: document not modelled"]

\* The first colon of the line that a blank or the line's end follows, 0 for none
KeyColon(line, at) ==
    LET colons == { i \in at..Len(line) : line[i] = 58 /\ FollowedByBlank(line, i) }
    IN  IF colons = {} THEN 0 ELSE Least(colons)

\* The value of an entry, from the text that follows "key:" on its line: a
\* quoted scalar must end the line, a plain scalar holds no ": " and no " #"
\* and resolves to null, a bool, an int or a string. A plain scalar with ": "
\* in it is the error "mapping values are not allowed in this context".
DecodeValue(text) ==
    LET Quoted(t, q) == IF ~q.ok THEN DecodeOther
                        ELSE IF q.next <= Len(t) THEN DecodeError
                        ELSE Decoded(YAMLValue("str", q.val))
        Plain(t, tag) == IF tag = "int" /\ Len(t) > 1 /\ (t[1] = 48 \/ ~IsDigit(t[1]))
                         THEN DecodeOther
                         ELSE Decoded(YAMLValue(tag, t))
        Value(t) == IF t = <<>> THEN Decoded(YAMLValue("null", <<>>))
                    ELSE IF t[1] = 39 THEN Quoted(t, SingleQuotedString(t, 2))
                    ELSE IF t[1] = 34 THEN Quoted(t, QuotedString(t, 2))
                    ELSE IF KeyColon(t, 1) # 0 THEN DecodeError
                    ELSE IF ~BlockPlainAllowed(t) THEN DecodeOther
                    ELSE Plain(t, ResolveTag(t))
    IN  Value(TrimRightSpaces(TrimLeftSpaces(text)))

\* The entries of a block mapping, one "key: value" a line; a key is plain:
\* letters, digits and _
RECURSIVE DecodeEntries(_, _)
DecodeEntries(lines, acc) ==
    LET IsPlainKey(k) ==
            /\ k # <<>>
            /\ \A i \in 1..Len(k) : \/ IsDigit(k[i])
                                    \/ (k[i] >= 65 /\ k[i] <= 90)
                                    \/ (k[i] >= 97 /\ k[i] <= 122)
                                    \/ k[i] = 95
        Entry(key, value) ==
            IF value.kind # "ok" THEN value
            ELSE IF \E i \in 1..Len(acc) : acc[i][1] = key THEN DecodeError
            ELSE DecodeEntries(Tail(lines), Append(acc, << key, value.v >>))
        Keyed(line, colon, key) ==
            IF colon = 0 \/ ~IsPlainKey(key) THEN DecodeOther
            ELSE Entry(key, DecodeValue(Tail2(line, colon + 1)))
        Coloned(line, colon) == Keyed(line, colon, SubSeq(line, 1, colon - 1))
        Line(line) == IF TrimRightSpaces(line) = <<>> THEN DecodeEntries(Tail(lines), acc)
                      ELSE Coloned(line, KeyColon(line, 1))
    IN  IF lines = <<>> THEN Decoded(acc) ELSE Line(Head(lines))

\* A decoded document: nil, or a map as its members << key, value >>
Object(members) == [isNil |-> FALSE, members |-> members]

NilObject == [isNil |-> TRUE, members |-> <<>>]

\* yaml.Unmarshal(y, &yamlObj): nil for the empty document, else the map
UnmarshalYAML(y) ==
    LET Mapped(entries) == IF entries.kind # "ok" THEN entries ELSE Decoded(Object(entries.v))
    IN  IF \A i \in 1..Len(y) : y[i] \in {32, 10} THEN Decoded(NilObject)
        ELSE IF TrimRightSpaces(ReplaceEvery(y, NL, <<>>)) = <<123, 125>> THEN Decoded(Object(<<>>))
        ELSE Mapped(DecodeEntries(SplitLines(y), <<>>))

\* A string as json.Marshal writes it: " \ and the line feed escaped, and the
\* characters < > & written as \u003c \u003e \u0026
JSONString(s) ==
    LET JSONChar(c) ==
            IF c = 34 THEN <<92, 34>>
            ELSE IF c = 92 THEN <<92, 92>>
            ELSE IF c = 10 THEN <<92, 110>>
            ELSE IF c = 60 THEN <<92, 117, 48, 48, 51, 99>>
            ELSE IF c = 62 THEN <<92, 117, 48, 48, 51, 101>>
            ELSE IF c = 38 THEN <<92, 117, 48, 48, 50, 54>>
            ELSE << c >>
    IN  <<34>> \o Join([i \in 1..Len(s) |-> JSONChar(s[i])]) \o <<34>>

\* json.Marshal(yamlObj): null, or the object with its keys in order
MarshalJSON(obj) ==
    LET JSONValue(v) ==
            IF v.tag = "str" THEN JSONString(v.s)
            ELSE IF v.tag = "int" THEN Itoa(DecimalValue(v.s))
            ELSE IF v.tag = "bool" THEN IF v.s[1] \in {116, 84} THEN <<116, 114, 117, 101>>
                                        ELSE <<102, 97, 108, 115, 101>>
            ELSE <<110, 117, 108, 108>>
        Member(mem) == JSONString(mem[1]) \o <<58>> \o JSONValue(mem[2])
        Members(sorted) ==
            <<123>> \o Member(sorted[1])
              \o Join([i \in 1..(Len(sorted) - 1) |-> <<44>> \o Member(sorted[i + 1])])
              \o <<125>>
    IN  IF obj.isNil THEN <<110, 117, 108, 108>>
        ELSE IF obj.members = <<>> THEN <<123, 125>>
        ELSE Members(SortMembers(obj.members))

\* yamlToJSON
yamlToJSON(y) ==
    LET Converted(obj) == IF obj.kind # "ok" THEN Err(obj.err) ELSE Ok(MarshalJSON(obj.v))
    IN  Converted(UnmarshalYAML(y))

(***************************************************************************)
(* processForDataTypes and processForAutoIndent. Each regular expression   *)
(* is matched as the regexp package matches it: leftmost, and among the    *)
(* matches from one position the one that the greedy operators prefer.     *)
(***************************************************************************)

\* "toInt"
toIntName == <<116, 111, 73, 110, 116>>

\* "toBool"
toBoolName == <<116, 111, 66, 111, 111, 108>>

\* "autoindent"
autoindentName == <<97, 117, 116, 111, 105, 110, 100, 101, 110, 116>>

\* "indent "
indentSpace == <<105, 110, 100, 101, 110, 116, 32>>

\* The class \s: tab, line feed, form feed, carriage return, space
IsSpace(c) == c \in {9, 10, 12, 13, 32}

\* The position after the longest run of \s that starts at at
SpaceRunEnd(s, at) == Least({ i \in at..Len(s) : ~IsSpace(s[i]) } \cup { Len(s) + 1 })

\* The position after the longest run of the character c that starts at at
CharRunEnd(s, c, at) == Least({ i \in at..Len(s) : s[i] # c } \cup { Len(s) + 1 })

\* The position of the line feed that ends the line of position at, Len(s) + 1
\* on the last line: . does not match a line feed
LineEnd(s, at) == Least({ i \in at..Len(s) : s[i] = 10 } \cup { Len(s) + 1 })

Max(S) == CHOOSE x \in S : \A y \in S : y <= x

NoMatch == [ok |-> FALSE, from |-> 0, to |-> 0, end |-> 0]

\* .*D2 from position at: the last D2 on the line, as the position after it,
\* 0 when the line has none
LastStopDelim(s, at, d2) ==
    LET ends == { g \in at..(LineEnd(s, at) - 1) : OccursAt(s, d2, g) /\ g + Len(d2) <= LineEnd(s, at) }
    IN  IF ends = {} THEN 0 ELSE Max(ends) + Len(d2)

\* \|\s*(?:toInt|toBool).*D2 at position q: the position after D2, 0 for no match
DataTypeTail(s, q, d2) ==
    LET r == SpaceRunEnd(s, q + 1)
        f == IF OccursAt(s, toIntName, r) THEN r + Len(toIntName)
             ELSE IF OccursAt(s, toBoolName, r) THEN r + Len(toBoolName)
             ELSE 0
    IN  IF q > Len(s) \/ s[q] # 124 \/ f = 0 THEN 0 ELSE LastStopDelim(s, f, d2)

\* (D1.*\|\s*(?:toInt|toBool).*D2)(?:\s*'?) tried at c: the bounds of group 1
\* and the position after the match
DataTypeGroupAt(s, c, d1, d2) ==
    LET pipes == { q \in (c + Len(d1))..(LineEnd(s, c + Len(d1)) - 1) :
                     DataTypeTail(s, q, d2) # 0 }
        Closed(g, h) == [ok |-> TRUE, from |-> c, to |-> g - 1,
                         end |-> IF h <= Len(s) /\ s[h] = 39 THEN h + 1 ELSE h]
        After(g) == Closed(g, SpaceRunEnd(s, g))
    IN  IF ~OccursAt(s, d1, c) \/ pipes = {} THEN NoMatch
        ELSE After(DataTypeTail(s, Max(pipes), d2))

\* (?:[\|>][-]?\s+)? tried at a, then (?:'?\s*), and then the group
DataTypeHeaderAt(s, a, d1, d2) ==
    LET a2 == IF a + 1 <= Len(s) /\ s[a + 1] = 45 THEN a + 2 ELSE a + 1
        Quote(c0) ==
            DataTypeGroupAt(s, SpaceRunEnd(s, IF c0 <= Len(s) /\ s[c0] = 39 THEN c0 + 1 ELSE c0),
                            d1, d2)
        Header(b) == IF b = a2 THEN NoMatch ELSE Quote(b)
    IN  IF a <= Len(s) /\ s[a] \in {124, 62}
        THEN Header(SpaceRunEnd(s, a2))
        ELSE Quote(a)

\* The match of
\*   :\s+(?:[\|>][-]?\s+)?(?:'?\s*)(D1.*\|\s*(?:toInt|toBool).*D2)(?:\s*'?)
\* that starts at the colon at p: the bounds of group 1 and the position after
\* the match
DataTypeMatchAt(s, p, d1, d2) ==
    LET Spaced(a) == IF a = p + 1 THEN NoMatch ELSE DataTypeHeaderAt(s, a, d1, d2)
    IN  IF s[p] # 58 THEN NoMatch ELSE Spaced(SpaceRunEnd(s, p + 1))

\* re.ReplaceAllString(str, ": $1") from position at on, the matches given
RECURSIVE ReplaceDataTypes(_, _, _)
ReplaceDataTypes(s, at, matches) ==
    LET Replaced(first, m) ==
            SubSeq(s, at, first - 1) \o <<58, 32>> \o SubSeq(s, m.from, m.to)
              \o ReplaceDataTypes(s, m.end, matches)
        From(starts) == IF starts = {} THEN Tail2(s, at)
                        ELSE Replaced(Least(starts), matches[Least(starts)])
    IN  From({ p \in at..Len(s) : matches[p].ok })

\* processForDataTypes
processForDataTypes(config, str) ==
    ReplaceDataTypes(str, 1, [ p \in 1..Len(str) |->
                                 DataTypeMatchAt(str, p, config.StartDelim, config.StopDelim) ])

\* \| *autoindent *D2 at position q: the position after D2, 0 for no match
AutoIndentTail(s, q, d2) ==
    LET Named(r) == OccursAt(s, autoindentName, r)
                      /\ OccursAt(s, d2, CharRunEnd(s, 32, r + Len(autoindentName)))
        After(r) == CharRunEnd(s, 32, r + Len(autoindentName)) + Len(d2)
        Tail1(r) == IF Named(r) THEN After(r) ELSE 0
    IN  IF q <= Len(s) /\ s[q] = 124 THEN Tail1(CharRunEnd(s, 32, q + 1)) ELSE 0

\* The match of ( *)(?:'|")?(D1.*\| *autoindent *D2) that starts at p: the
\* bounds of group 2 and, as end, the position after group 1, which is what lies
\* between p and the optional quote
AutoIndentMatchAt(s, p, d1, d2) ==
    LET Group(p1, p2, pipes) ==
            IF ~OccursAt(s, d1, p2) \/ pipes = {} THEN NoMatch
            ELSE [ok |-> TRUE, from |-> p2, to |-> AutoIndentTail(s, Max(pipes), d2) - 1,
                  end |-> p1]
        Quoted(p1, p2) ==
            Group(p1, p2, { q \in (p2 + Len(d1))..(LineEnd(s, p2 + Len(d1)) - 1) :
                              AutoIndentTail(s, q, d2) # 0 })
        Spaces(p1) == Quoted(p1, IF p1 <= Len(s) /\ s[p1] \in {39, 34} THEN p1 + 1 ELSE p1)
    IN  Spaces(CharRunEnd(s, 32, p))

\* re.FindAllStringSubmatch(str, -1) from position at on, the matches given: of
\* each match the length of group 1 and group 2
RECURSIVE FindAllAutoIndent(_, _, _)
FindAllAutoIndent(s, at, matches) ==
    LET Found(first, m) ==
            << [spaces |-> m.end - first, matchStr |-> SubSeq(s, m.from, m.to)] >>
              \o FindAllAutoIndent(s, m.to + 1, matches)
        From(starts) == IF starts = {} THEN <<>>
                        ELSE Found(Least(starts), matches[Least(starts)])
    IN  From({ p \in at..Len(s) : matches[p].ok })

\* The loop of processForAutoIndent over the submatches
RECURSIVE ReplaceAutoIndent(_, _, _)
ReplaceAutoIndent(processedStr, found, additionalIndentation) ==
    IF found = <<>> THEN processedStr
    ELSE LET numSpaces == Head(found).spaces - additionalIndentation
             matchStr == Head(found).matchStr
             newMatchStr == ReplaceFirst(matchStr, autoindentName, indentSpace \o Itoa(numSpaces))
         IN  ReplaceAutoIndent(ReplaceFirst(processedStr, matchStr, newMatchStr), Tail(found),
                               additionalIndentation)

\* processForAutoIndent
processForAutoIndent(config, str) ==
    ReplaceAutoIndent(str,
                      FindAllAutoIndent(str, 1, [ p \in 1..Len(str) |->
                          AutoIndentMatchAt(str, p, config.StartDelim, config.StopDelim) ]),
                      config.AdditionalIndentation)

(***************************************************************************)
(* The template functions, and text/template on the templates resolved     *)
(* here: text and actions, an action being a pipeline of commands whose    *)
(* operands are string and integer constants, true and false, fields of    *)
(* the context and function names. Control structures, variables and trim  *)
(* markers are not part of these templates.                                *)
(***************************************************************************)

\* The names that ResolveTemplate binds, each as it is written in a template
FuncText ==
    [ fromSecret |-> <<102, 114, 111, 109, 83, 101, 99, 114, 101, 116>>,
      fromConfigMap |-> <<102, 114, 111, 109, 67, 111, 110, 102, 105, 103, 77, 97, 112>>,
      fromClusterClaim |-> <<102, 114, 111, 109, 67, 108, 117, 115, 116, 101, 114, 67, 108, 97, 105, 109>>,
      lookup |-> <<108, 111, 111, 107, 117, 112>>,
      base64enc |-> <<98, 97, 115, 101, 54, 52, 101, 110, 99>>,
      base64dec |-> <<98, 97, 115, 101, 54, 52, 100, 101, 99>>,
      autoindent |-> <<97, 117, 116, 111, 105, 110, 100, 101, 110, 116>>,
      indent |-> <<105, 110, 100, 101, 110, 116>>,
      atoi |-> <<97, 116, 111, 105>>,
      toInt |-> <<116, 111, 73, 110, 116>>,
      toBool |-> <<116, 111, 66, 111, 111, 108>>,
      protect |-> <<112, 114, 111, 116, 101, 99, 116>> ]

\* The values of the template engine
StrV(s) == [t |-> "str", s |-> s, n |-> 0, b |-> FALSE]

IntV(n) == [t |-> "int", s |-> <<>>, n |-> n, b |-> FALSE]

BoolV(b) == [t |-> "bool", s |-> <<>>, n |-> 0, b |-> b]

\* What a function call returns: a value or an error
Returned(v) == [kind |-> "ok", v |-> v, err |-> ""]

Failed(e) == [kind |-> "err", v |-> StrV(<<>>), err |-> e]

\* The largest int of the build. An int has 32 or 64 bits by the platform;
\* the model takes the 32-bit build, whose values fit the integers here
maxInt == 2147483647

minInt == -maxInt - 1

\* What strconv.ParseInt returns: the value and the error, "nil", "syntax" or "range"
Parsed64(n, err) == [n |-> n, err |-> err]

\* lower(c)
LowerByte(c) == IF c >= 65 /\ c <= 90 THEN c + 32 ELSE c

\* The value of a digit: 0..9, a..z and A..Z from 10, and a value no base has
\* for another byte
DigitValue(c) ==
    IF IsDigit(c) THEN c - 48
    ELSE IF LowerByte(c) >= 97 /\ LowerByte(c) <= 122 THEN LowerByte(c) - 97 + 10
    ELSE 255

\* The digits of the largest uint64 in a base: 2^64 - 1
MaxUint64Digits(base) ==
    IF base = 2 THEN Repeat(1, 64)
    ELSE IF base = 8 THEN <<1>> \o Repeat(7, 21)
    ELSE IF base = 16 THEN Repeat(15, 16)
    ELSE <<1, 8, 4, 4, 6, 7, 4, 4, 0, 7, 3, 7, 0, 9, 5, 5, 1, 6, 1, 5>>

\* digits without its leading zeros
RECURSIVE StripZeros(_)
StripZeros(digits) ==
    IF digits # <<>> /\ Head(digits) = 0 THEN StripZeros(Tail(digits)) ELSE digits

\* The number of the digits a is greater than the one of b, neither with a leading zero
MagnitudeGreater(a, b) == Len(a) > Len(b) \/ (Len(a) = Len(b) /\ Less(b, a))

\* underscoreOK: an underscore only between two digits, the base prefix
\* counting as a digit
underscoreOK(s) ==
    LET u == IF s # <<>> /\ s[1] \in {43, 45} THEN Tail(s) ELSE s
        prefixed == Len(u) >= 2 /\ u[1] = 48 /\ LowerByte(u[2]) \in {98, 111, 120}
        hex == prefixed /\ LowerByte(u[2]) = 120
        from == IF prefixed THEN 3 ELSE 1
        IsDig(i) == \/ IsDigit(u[i])
                    \/ hex /\ LowerByte(u[i]) >= 97 /\ LowerByte(u[i]) <= 102
    IN  \A i \in from..Len(u) :
            u[i] = 95 => /\ i < Len(u)
                         /\ IsDig(i + 1)
                         /\ IF i = from THEN prefixed ELSE IsDig(i - 1)

\* The value of the digits in the base with the sign, added digit by digit,
\* and whether it is an int
RECURSIVE SignedValue(_, _, _, _)
SignedValue(digits, base, neg, acc) ==
    IF digits = <<>> THEN [ok |-> TRUE, n |-> acc]
    ELSE IF neg
    THEN IF acc < (minInt + Head(digits) + base - 1) \div base THEN [ok |-> FALSE, n |-> minInt]
         ELSE SignedValue(Tail(digits), base, neg, acc * base - Head(digits))
    ELSE IF acc > (maxInt - Head(digits)) \div base THEN [ok |-> FALSE, n |-> maxInt]
         ELSE SignedValue(Tail(digits), base, neg, acc * base + Head(digits))

\* strconv.ParseInt(s, base, 0) for base 10 and base 0. An optional sign; with
\* base 0 the prefix 0x, 0b or 0o, or a leading 0 for octal, else decimal, and
\* underscores between digits. ParseUint reads the digits in order: a digit
\* that the base lacks is a syntax error, unless the digits before it already
\* exceed a uint64, which is a range error. A value that is no int is a range
\* error with the nearest int.
ParseInt(s, base0) ==
    LET neg == s # <<>> /\ s[1] = 45
        u == IF s # <<>> /\ s[1] \in {43, 45} THEN Tail(s) ELSE s
        Prefixed(c) == Len(u) >= 3 /\ LowerByte(u[2]) = c
        base == IF base0 = 10 \/ u = <<>> \/ u[1] # 48 THEN 10
                ELSE IF Prefixed(98) THEN 2
                ELSE IF Prefixed(120) THEN 16
                ELSE 8
        body == IF base0 = 10 \/ u = <<>> \/ u[1] # 48 THEN u
                ELSE IF Prefixed(98) \/ Prefixed(111) \/ Prefixed(120) THEN Tail2(u, 3)
                ELSE Tail(u)
        kept == SelectSeq(body, LAMBDA c : base0 # 0 \/ c # 95)
        digits == [i \in 1..Len(kept) |-> DigitValue(kept[i])]
        bad == Least({ i \in 1..Len(digits) : digits[i] >= base } \cup { Len(digits) + 1 })
        Clamped == Parsed64(IF neg THEN minInt ELSE maxInt, "range")
        Valued(v) == IF v.ok THEN Parsed64(v.n, "nil") ELSE Clamped
    IN  IF u = <<>> THEN Parsed64(0, "syntax")
        ELSE IF MagnitudeGreater(StripZeros(SubSeq(digits, 1, bad - 1)), MaxUint64Digits(base))
        THEN Clamped
        ELSE IF bad <= Len(digits) THEN Parsed64(0, "syntax")
        ELSE IF base0 = 0 /\ ~underscoreOK(s) THEN Parsed64(0, "syntax")
        ELSE Valued(SignedValue(digits, base, neg, 0))

\* atoi: i, _ := strconv.Atoi(a), which is ParseInt(a, 10, 0) with the error
\* dropped: the value of [-+]?[0-9]+, the nearest int when it is no int, and 0
\* for any other string
atoi(a) == ParseInt(a, 10).n

\* cast.ToInt of a string: strconv.ParseInt(s, 0, 0), and 0 on any error (cast
\* 1.5 first removes a fraction of zeros, which no string here has)
ToIntString(s) ==
    LET Value(r) == IF r.err = "nil" THEN r.n ELSE 0
    IN  Value(ParseInt(s, 0))

\* toInt, cast.ToInt: an int is itself, a bool 1 or 0, a string as above
toInt(v) ==
    IF v.t = "int" THEN v.n
    ELSE IF v.t = "bool" THEN IF v.b THEN 1 ELSE 0
    ELSE ToIntString(v.s)

\* toBool without regard to the case of the letters
toBoolAnyCase(a) ==
    [i \in 1..Len(a) |-> LowerByte(a[i])] \in { <<49>>, <<116>>, <<116, 114, 117, 101>> }

\* toBool, strconv.ParseBool with the error dropped
toBool(a) == a \in { <<49>>, <<116>>, <<84>>, <<84, 82, 85, 69>>, <<116, 114, 117, 101>>, <<84, 114, 117, 101>> }

\* strings.TrimSpace
RECURSIVE TrimSpace(_)
TrimSpace(s) ==
    IF s # <<>> /\ IsSpace(s[1]) THEN TrimSpace(Tail(s))
    ELSE IF s # <<>> /\ IsSpace(s[Len(s)]) THEN TrimSpace(SubSeq(s, 1, Len(s) - 1))
    ELSE s

\* t.indent; strings.Repeat panics on a negative count, and the engine returns
\* the panic of a function as its error
indent(config, spaces, v) ==
    LET count == spaces + config.AdditionalIndentation
        pad == Repeat(32, count)
        npad == NL \o pad \o ReplaceEvery(v, NL, NL \o pad)
    IN  IF count < 0 THEN Failed("strings: negative Repeat count")
        ELSE Returned(StrV(TrimSpace(npad)))

\* autoindent
autoindent(v) == Failed("an unexpected error occurred where autoindent could not be processed")

\* base64decode
base64decode(v) == IF B64Valid(v) THEN Returned(StrV(B64DecodeBytes(v))) ELSE Failed("base64")

\* A protect stub that hands back the empty value, as protect does
protectStubEmptyPasses(s) ==
    IF s = <<>> THEN Returned(StrV(s)) ELSE Failed("ErrProtectNotEnabled")

\* func(s string) (string, error) { return "", ErrProtectNotEnabled }
protectStub(s) == Failed("ErrProtectNotEnabled")

\* The call of the function bound under a name, with the arguments given: the
\* engine checks their number and their types, then calls. The cluster holds
\* no object, and the functions that read it fail.
CallFunc(config, impl, args) ==
    LET IsStr(i) == args[i].t = "str"
        Protected(r) == IF r.kind = "ok" THEN Returned(StrV(r.val)) ELSE Failed(r.err)
    IN  IF impl = "toInt"
        THEN IF Len(args) # 1 THEN Failed("wrong number of args") ELSE Returned(IntV(toInt(args[1])))
        ELSE IF impl = "indent"
        THEN IF Len(args) # 2 THEN Failed("wrong number of args")
             ELSE IF args[1].t # "int" \/ ~IsStr(2) THEN Failed("wrong type for value")
             ELSE indent(config, args[1].n, args[2].s)
        ELSE IF impl \in {"fromSecret", "fromSecretProtected", "fromConfigMap",
                          "fromClusterClaim", "lookup"}
        THEN Failed("cluster not modelled")
        ELSE IF Len(args) # 1 THEN Failed("wrong number of args")
        ELSE IF ~IsStr(1) THEN Failed("wrong type for value")
        ELSE IF impl = "atoi" THEN Returned(IntV(atoi(args[1].s)))
        ELSE IF impl = "toBool" THEN Returned(BoolV(toBool(args[1].s)))
        ELSE IF impl = "autoindent" THEN autoindent(args[1].s)
        ELSE IF impl = "base64enc" THEN Returned(StrV(B64Encode(args[1].s)))
        ELSE IF impl = "base64dec" THEN base64decode(args[1].s)
        ELSE IF impl = "protect" THEN Protected(protect(config.EncryptionConfig, args[1].s))
        ELSE protectStub(args[1].s)

\* A token of an action: "str", "num", "ident", "field" or "pipe", and its text
Tok(k, v) == [k |-> k, v |-> v]

LexFail(e) == [ok |-> FALSE, val |-> <<>>, toks |-> <<>>, next |-> 0, err |-> e]

Lexed(val, toks, next) == [ok |-> TRUE, val |-> val, toks |-> toks, next |-> next, err |-> ""]

IsAlpha(c) == (c >= 65 /\ c <= 90) \/ (c >= 97 /\ c <= 122) \/ c = 95

\* The position after the letters, digits and _ that start at at
WordEnd(s, at) ==
    Least({ i \in at..Len(s) : ~(IsAlpha(s[i]) \/ IsDigit(s[i])) } \cup { Len(s) + 1 })

\* The interpreted string constant whose characters start at at, with the
\* escapes \" \\ \n and \t; it ends on its line
RECURSIVE GoQuoted(_, _, _)
GoQuoted(s, at, acc) ==
    IF at > Len(s) \/ s[at] = 10 THEN LexFail("unterminated quoted string")
    ELSE IF s[at] = 34 THEN Lexed(acc, <<>>, at + 1)
    ELSE IF s[at] = 92
         THEN IF at + 1 > Len(s) THEN LexFail("unterminated quoted string")
              ELSE IF s[at + 1] \in {34, 92} THEN GoQuoted(s, at + 2, Append(acc, s[at + 1]))
              ELSE IF s[at + 1] = 110 THEN GoQuoted(s, at + 2, Append(acc, 10))
              ELSE IF s[at + 1] = 116 THEN GoQuoted(s, at + 2, Append(acc, 9))
              ELSE LexFail("invalid syntax")
    ELSE GoQuoted(s, at + 1, Append(acc, s[at]))

\* The tokens of the action whose body starts at at, up to the right delimiter
RECURSIVE LexAction(_, _, _, _)
LexAction(s, at, d2, toks) ==
    LET Str(q) == IF ~q.ok THEN q
                  ELSE LexAction(s, q.next, d2, Append(toks, Tok("str", q.val)))
        Word(kind, from, e) == LexAction(s, e, d2, Append(toks, Tok(kind, SubSeq(s, from, e - 1))))
        Num(e) == IF IsDecimalInt(SubSeq(s, at, e - 1)) THEN Word("num", at, e)
                  ELSE LexFail("bad number syntax")
    IN  IF at > Len(s) THEN LexFail("unclosed action")
        ELSE IF OccursAt(s, d2, at) THEN Lexed(<<>>, toks, at + Len(d2))
        ELSE IF IsSpace(s[at]) THEN LexAction(s, at + 1, d2, toks)
        ELSE IF s[at] = 34 THEN Str(GoQuoted(s, at + 1, <<>>))
        ELSE IF s[at] = 124 THEN LexAction(s, at + 1, d2, Append(toks, Tok("pipe", <<>>)))
        ELSE IF IsAlpha(s[at]) THEN Word("ident", at, WordEnd(s, at))
        ELSE IF IsDigit(s[at]) \/ (s[at] \in {43, 45} /\ at < Len(s) /\ IsDigit(s[at + 1]))
             THEN Num(WordEnd(s, at + 1))
        ELSE IF s[at] = 46 /\ at < Len(s) /\ IsAlpha(s[at + 1])
             THEN Word("field", at + 1, WordEnd(s, at + 1))
        ELSE LexFail("unrecognized character in action")

\* The commands of a pipeline: the tokens between the pipes
RECURSIVE SplitCommands(_, _)
SplitCommands(toks, cmd) ==
    IF toks = <<>> THEN << cmd >>
    ELSE IF Head(toks).k = "pipe" THEN << cmd >> \o SplitCommands(Tail(toks), <<>>)
    ELSE SplitCommands(Tail(toks), Append(cmd, Head(toks)))

\* "true", "false"
BoolText == { <<116, 114, 117, 101>>, <<102, 97, 108, 115, 101>> }

\* The name that an identifier is bound under in funcs, "" when it is not bound
FuncNamed(funcs, ident) ==
    LET named == { n \in DOMAIN funcs : FuncText[n] = ident }
    IN  IF named = {} THEN "" ELSE CHOOSE n \in named : TRUE

\* The error of parsing a pipeline, "" for none: a command without operands, an
\* identifier that is not a function of funcs, a constant as a later command
ParseError(cmds, funcs) ==
    IF \E i \in 1..Len(cmds) : cmds[i] = <<>> THEN "missing value for command"
    ELSE IF \E i \in 1..Len(cmds) : \E j \in 1..Len(cmds[i]) :
                /\ cmds[i][j].k = "ident"
                /\ cmds[i][j].v \notin BoolText
                /\ FuncNamed(funcs, cmds[i][j].v) = ""
         THEN "function not defined"
    ELSE IF \E i \in 2..Len(cmds) :
                \/ cmds[i][1].k \in {"str", "num"}
                \/ cmds[i][1].k = "ident" /\ cmds[i][1].v \in BoolText
         THEN "non executable command in pipeline"
    ELSE ""

TextNode(text) == [type |-> "text", text |-> text, cmds |-> <<>>]

ActionNode(cmds) == [type |-> "action", text |-> <<>>, cmds |-> cmds]

Parsed(nodes) == [kind |-> "ok", nodes |-> nodes, err |-> ""]

ParseFail(e) == [kind |-> "err", nodes |-> <<>>, err |-> e]

\* tmpl.Parse(templateStr) from position at on: the text up to the next left
\* delimiter, the action, and what follows it
RECURSIVE ParseFrom(_, _, _, _, _)
ParseFrom(s, at, d1, d2, funcs) ==
    LET Before(text) == IF text = <<>> THEN <<>> ELSE << TextNode(text) >>
        Rest(i, cmds, rest) ==
            IF rest.kind # "ok" THEN rest
            ELSE Parsed(Before(SubSeq(s, at, i - 1)) \o << ActionNode(cmds) >> \o rest.nodes)
        Checked(i, lexed, cmds, err) ==
            IF err # "" THEN ParseFail(err)
            ELSE Rest(i, cmds, ParseFrom(s, lexed.next, d1, d2, funcs))
        Commands(i, lexed, cmds) == Checked(i, lexed, cmds, ParseError(cmds, funcs))
        Action(i, lexed) == IF ~lexed.ok THEN ParseFail(lexed.err)
                            ELSE Commands(i, lexed, SplitCommands(lexed.toks, <<>>))
        From(i) == IF i = 0 THEN Parsed(Before(Tail2(s, at)))
                   ELSE Action(i, LexAction(s, i + Len(d1), d2, <<>>))
    IN  From(IndexFrom(s, d1, at))

\* The error of tmpl.Parse for the first identifier that is no function of
\* funcs, in the actions from position at on; <<>> when there is none. Its
\* text is template: tmpl:<line>: function "<name>" not defined, with the line
\* of the action, which here lies on one line
RECURSIVE NotDefinedError(_, _, _, _, _)
NotDefinedError(s, at, d1, d2, funcs) ==
    LET Line(i) == 1 + Cardinality({ k \in 1..(i - 1) : s[k] = 10 })
        Message(i, name) ==
            <<116, 101, 109, 112, 108, 97, 116, 101, 58, 32, 116, 109, 112, 108, 58>>
              \o Itoa(Line(i))
              \o <<58, 32, 102, 117, 110, 99, 116, 105, 111, 110, 32, 34>>
              \o name
              \o <<34, 32, 110, 111, 116, 32, 100, 101, 102, 105, 110, 101, 100>>
        Undefined(toks) == { j \in 1..Len(toks) : /\ toks[j].k = "ident"
                                                   /\ toks[j].v \notin BoolText
                                                   /\ FuncNamed(funcs, toks[j].v) = "" }
        Named(i, toks, undefined) ==
            IF undefined = {} THEN <<>> ELSE Message(i, toks[Least(undefined)].v)
        Action(i, lexed, found) ==
            IF found # <<>> THEN found
            ELSE NotDefinedError(s, lexed.next, d1, d2, funcs)
        Lexical(i, lexed) == IF ~lexed.ok THEN <<>>
                             ELSE Action(i, lexed, Named(i, lexed.toks, Undefined(lexed.toks)))
        From(i) == IF i = 0 THEN <<>> ELSE Lexical(i, LexAction(s, i + Len(d1), d2, <<>>))
    IN  From(IndexFrom(s, d1, at))

\* fmt.Errorf("failed to parse the template JSON string %v: %w", tmplJSONStr, err)
parseErrorf(tmplJSONStr, err) ==
    <<102, 97, 105, 108, 101, 100, 32, 116, 111, 32, 112, 97, 114, 115, 101, 32, 116, 104,
    101, 32, 116, 101, 109, 112, 108, 97, 116, 101, 32, 74, 83, 79, 78, 32, 115, 116, 114,
    105, 110, 103, 32>>
      \o tmplJSONStr \o <<58, 32>> \o err

\* The value of an operand: a constant, or a field of the context
Operand(tok, data) ==
    IF tok.k = "str" THEN Returned(StrV(tok.v))
    ELSE IF tok.k = "num" THEN Returned(IntV(DecimalValue(tok.v)))
    ELSE IF tok.k = "ident" /\ tok.v \in BoolText THEN Returned(BoolV(tok.v[1] = 116))
    ELSE IF tok.k = "field"
         THEN IF \E i \in 1..Len(data.fields) : data.fields[i][1] = tok.v
              THEN LET i == CHOOSE i \in 1..Len(data.fields) : data.fields[i][1] = tok.v
                   IN  Returned(StrV(data.fields[i][2]))
              ELSE Failed("can't evaluate field")
    ELSE Failed("wrong number of args")

\* The value of a command; final is the value of the command before it in the
\* pipeline, which becomes the last argument
EvalCommand(config, funcs, data, cmd, final) ==
    LET Call(name, operands) ==
            IF \E i \in 1..Len(operands) : operands[i].kind # "ok"
            THEN Failed("error calling")
            ELSE CallFunc(config, funcs[FuncNamed(funcs, name)],
                          [i \in 1..Len(operands) |-> operands[i].v] \o final)
        Command(first) ==
            IF first.k = "ident" /\ first.v \notin BoolText
            THEN Call(first.v, [i \in 1..(Len(cmd) - 1) |-> Operand(cmd[i + 1], data)])
            ELSE IF Len(cmd) > 1 \/ final # <<>> THEN Failed("can't give argument to non-function")
            ELSE Operand(first, data)
    IN  Command(cmd[1])

\* The value of a pipeline
RECURSIVE EvalPipeline(_, _, _, _, _)
EvalPipeline(config, funcs, data, cmds, final) ==
    LET Piped(r) == IF r.kind # "ok" THEN r
                    ELSE EvalPipeline(config, funcs, data, Tail(cmds), << r.v >>)
    IN  IF cmds = <<>> THEN Returned(final[1])
        ELSE Piped(EvalCommand(config, funcs, data, Head(cmds), final))

\* tmpl.Execute(&buf, ctx): the nodes are written in turn, a value as
\* fmt.Fprint writes it; at the error of a function the execution stops with
\* what was written so far
RECURSIVE Execute(_, _, _, _, _)
Execute(config, funcs, data, nodes, written) ==
    LET PrintValue(v) ==
            IF v.t = "str" THEN v.s
            ELSE IF v.t = "int" THEN Itoa(v.n)
            ELSE IF v.b THEN <<116, 114, 117, 101>> ELSE <<102, 97, 108, 115, 101>>
        Action(r) == IF r.kind # "ok" THEN [kind |-> "err", buf |-> written, err |-> r.err]
                     ELSE Execute(config, funcs, data, Tail(nodes), written \o PrintValue(r.v))
    IN  IF nodes = <<>> THEN [kind |-> "ok", buf |-> written, err |-> ""]
        ELSE IF Head(nodes).type = "text"
             THEN Execute(config, funcs, data, Tail(nodes), written \o Head(nodes).text)
        ELSE Action(EvalPipeline(config, funcs, data, Head(nodes).cmds, <<>>))

(***************************************************************************)
(* ResolveTemplate                                                         *)
(***************************************************************************)

\* What ResolveTemplate returns: the document and the error
ResolveReturn(doc, err) == [doc |-> doc, err |-> err]

\* A context: "nil", a "struct" with its fields << name, value, kind >>, or a
\* value of another kind
Context(kind, fields) == [kind |-> kind, fields |-> fields]

\* getValidContext that takes every struct, whatever the kinds of its fields
getValidContextAnyStruct(c) ==
    IF c.kind = "nil" THEN [ctx |-> Context("struct", <<>>), err |-> "nil"]
    ELSE IF c.kind # "struct"
         THEN [ctx |-> Context("nil", <<>>), err |-> "the input context must be a struct"]
    ELSE [ctx |-> c, err |-> "nil"]

\* getValidContext
getValidContext(c) ==
    IF c.kind = "nil" THEN [ctx |-> Context("struct", <<>>), err |-> "nil"]
    ELSE IF c.kind # "struct"
         THEN [ctx |-> Context("nil", <<>>), err |-> "the input context must be a struct"]
    ELSE IF \E i \in 1..Len(c.fields) : c.fields[i][3] # "string"
         THEN [ctx |-> Context("nil", <<>>),
               err |-> "the input context must be a struct with string fields"]
    ELSE [ctx |-> c, err |-> "nil"]

\* The elements of a sequence
Range(seq) == { seq[i] : i \in 1..Len(seq) }

\* funcMap with the DisabledFunctions deleted before fromSecret and protect
\* are set by the encryption mode
FuncMapDisabledFirst(config) ==
    LET enabled == config.EncryptionConfig.EncryptionEnabled
        base == { "fromSecret", "fromConfigMap", "fromClusterClaim", "lookup", "base64enc",
                  "base64dec", "autoindent", "indent", "atoi", "toInt", "toBool" }
        kept == (base \ Range(config.DisabledFunctions))
                    \cup {"protect"} \cup (IF enabled THEN {"fromSecret"} ELSE {})
    IN  [ n \in kept |-> IF n = "protect" THEN (IF enabled THEN "protect" ELSE "protectStub")
                         ELSE IF n = "fromSecret" /\ enabled THEN "fromSecretProtected"
                         ELSE n ]

\* funcMap as ResolveTemplate builds it: the functions, fromSecret and protect
\* by the encryption mode, and then without the DisabledFunctions
FuncMap(config) ==
    LET enabled == config.EncryptionConfig.EncryptionEnabled
        bound == [ fromSecret |-> IF enabled THEN "fromSecretProtected" ELSE "fromSecret",
                   fromConfigMap |-> "fromConfigMap",
                   fromClusterClaim |-> "fromClusterClaim",
                   lookup |-> "lookup",
                   base64enc |-> "base64enc",
                   base64dec |-> "base64dec",
                   autoindent |-> "autoindent",
                   indent |-> "indent",
                   atoi |-> "atoi",
                   toInt |-> "toInt",
                   toBool |-> "toBool",
                   protect |-> IF enabled THEN "protect" ELSE "protectStub" ]
    IN  [ n \in (DOMAIN bound) \ Range(config.DisabledFunctions) |-> bound[n] ]

\* The datatype-quote rewrite looks for toInt only
ContainsToInt(text) == Contains(text, toIntName)

\* strings.Contains(templateStr, "toInt") || strings.Contains(templateStr, "toBool")
ContainsDataTypes(text) == Contains(text, toIntName) \/ Contains(text, toBoolName)

\* strings.Contains(templateStr, "autoindent")
ContainsAutoIndent(text) == Contains(text, autoindentName)

\* An error return that hands back the text of the failed stage
ResolveErrorPartial(text, err) == ResolveReturn(text, err)

\* return []byte(""), err
ResolveError(text, err) == ResolveReturn(<<>>, err)

\* A stage that ran: its name, the text it was given, the text it produced, and
\* its error
Stage(name, in, out, err) == [stage |-> name, in |-> in, out |-> out, err |-> err]

\* ctx, err := getValidContext(context)
GetValidContext ==
    /\ rpc = "start"
    /\ crashed = ""
    /\ \E r \in {getValidContext(context)} :
           /\ ctx' = r.ctx
           /\ stages' = Append(stages, Stage("getValidContext", <<>>, <<>>, r.err))
           /\ IF r.err # "nil"
              THEN /\ resolveRet' = ResolveError(<<>>, r.err)
                   /\ rpc' = "returned"
              ELSE /\ rpc' = "funcMap"
                   /\ UNCHANGED resolveRet
    /\ UNCHANGED << tmplJSON, context, funcMap, rTemplateStr, tmpl, buf,
                    cryptoVars, callVars, configVars, pipeVars >>

\* funcMap and template.New("tmpl").Delims(...).Funcs(funcMap)
BuildFuncMap ==
    /\ rpc = "funcMap"
    /\ crashed = ""
    /\ funcMap' = FuncMap(resolver.config)
    /\ rpc' = "jsonToYAML"
    /\ UNCHANGED << tmplJSON, context, ctx, rTemplateStr, tmpl, buf, resolveRet, stages,
                    cryptoVars, callVars, configVars, pipeVars >>

\* templateYAMLBytes, err := jsonToYAML(tmplJSON)
JSONToYAML ==
    /\ rpc = "jsonToYAML"
    /\ crashed = ""
    /\ \E r \in {jsonToYAML(tmplJSON)} :
           IF r.kind = "ok"
           THEN /\ rTemplateStr' = r.val
                /\ stages' = Append(stages, Stage("jsonToYAML", tmplJSON, r.val, "nil"))
                /\ rpc' = "decrypt"
                /\ UNCHANGED resolveRet
           ELSE /\ resolveRet' = ResolveError(<<>>, r.err)
                /\ stages' = Append(stages, Stage("jsonToYAML", tmplJSON, <<>>, r.err))
                /\ rpc' = "returned"
                /\ UNCHANGED rTemplateStr
    /\ UNCHANGED << tmplJSON, context, ctx, funcMap, tmpl, buf,
                    cryptoVars, callVars, configVars, pipeVars >>

\* if t.config.DecryptionEnabled: t.processEncryptedStrs(templateStr) is called
DecryptPass ==
    /\ rpc = "decrypt"
    /\ crashed = ""
    /\ IF resolver.config.EncryptionConfig.DecryptionEnabled
       THEN /\ templateStr' = rTemplateStr
            /\ cpc' = "start"
            /\ rpc' = "decrypting"
       ELSE /\ rpc' = "dataTypes"
            /\ UNCHANGED << templateStr, cpc >>
    /\ UNCHANGED << tmplJSON, context, ctx, funcMap, rTemplateStr, tmpl, buf, resolveRet, stages,
                    submatches, numWorkers, pushed, result, processed, processedResults,
                    passRet, received, chanVars, workerVars, crashed,
                    cryptoVars, callVars, configVars >>

\* templateStr, err = t.processEncryptedStrs(templateStr) has returned
DecryptReturn ==
    /\ rpc = "decrypting"
    /\ cpc = "returned"
    /\ crashed = ""
    /\ stages' = Append(stages, Stage("decrypt", rTemplateStr, passRet.str, passRet.err))
    /\ IF passRet.err # "nil"
       THEN /\ resolveRet' = ResolveError(processed, passRet.err)
            /\ rpc' = "returned"
            /\ UNCHANGED rTemplateStr
       ELSE /\ rTemplateStr' = passRet.str
            /\ rpc' = "dataTypes"
            /\ UNCHANGED resolveRet
    /\ UNCHANGED << tmplJSON, context, ctx, funcMap, tmpl, buf,
                    cryptoVars, callVars, configVars, pipeVars >>

\* if the text contains toInt or toBool: templateStr = t.processForDataTypes(templateStr)
ProcessForDataTypes ==
    /\ rpc = "dataTypes"
    /\ crashed = ""
    /\ IF ContainsDataTypes(rTemplateStr)
       THEN \E out \in {processForDataTypes(resolver.config, rTemplateStr)} :
                /\ rTemplateStr' = out
                /\ stages' = Append(stages, Stage("dataTypes", rTemplateStr, out, "nil"))
       ELSE UNCHANGED << rTemplateStr, stages >>
    /\ rpc' = "autoIndent"
    /\ UNCHANGED << tmplJSON, context, ctx, funcMap, tmpl, buf, resolveRet,
                    cryptoVars, callVars, configVars, pipeVars >>

\* if the text contains autoindent: templateStr = t.processForAutoIndent(templateStr)
ProcessForAutoIndent ==
    /\ rpc = "autoIndent"
    /\ crashed = ""
    /\ IF ContainsAutoIndent(rTemplateStr)
       THEN \E out \in {processForAutoIndent(resolver.config, rTemplateStr)} :
                /\ rTemplateStr' = out
                /\ stages' = Append(stages, Stage("autoIndent", rTemplateStr, out, "nil"))
       ELSE UNCHANGED << rTemplateStr, stages >>
    /\ rpc' = "parse"
    /\ UNCHANGED << tmplJSON, context, ctx, funcMap, tmpl, buf, resolveRet,
                    cryptoVars, callVars, configVars, pipeVars >>

\* tmpl, err = tmpl.Parse(templateStr)
Parse ==
    /\ rpc = "parse"
    /\ crashed = ""
    /\ \E r \in {ParseFrom(rTemplateStr, 1, resolver.config.StartDelim,
                            resolver.config.StopDelim, funcMap)} :
           /\ stages' = Append(stages, Stage("parse", rTemplateStr, rTemplateStr,
                                             IF r.kind = "ok" THEN "nil" ELSE r.err))
           /\ IF r.kind = "ok"
              THEN /\ tmpl' = r.nodes
                   /\ rpc' = "execute"
                   /\ UNCHANGED resolveRet
              ELSE /\ resolveRet' = ResolveError(rTemplateStr, r.err)
                   /\ rpc' = "returned"
                   /\ UNCHANGED tmpl
    /\ UNCHANGED << tmplJSON, context, ctx, funcMap, rTemplateStr, buf,
                    cryptoVars, callVars, configVars, pipeVars >>

\* err = tmpl.Execute(&buf, ctx)
ExecuteTemplate ==
    /\ rpc = "execute"
    /\ crashed = ""
    /\ \E r \in {Execute(resolver.config, funcMap, ctx, tmpl, <<>>)} :
           /\ buf' = r.buf
           /\ stages' = Append(stages, Stage("execute", rTemplateStr, r.buf,
                                             IF r.kind = "ok" THEN "nil" ELSE r.err))
           /\ IF r.kind = "ok"
              THEN /\ rpc' = "yamlToJSON"
                   /\ UNCHANGED resolveRet
              ELSE /\ resolveRet' = ResolveError(r.buf, r.err)
                   /\ rpc' = "returned"
    /\ UNCHANGED << tmplJSON, context, ctx, funcMap, rTemplateStr, tmpl,
                    cryptoVars, callVars, configVars, pipeVars >>

\* resolvedTemplateBytes, err := yamlToJSON([]byte(resolvedTemplateStr)), and the return
YAMLToJSON ==
    /\ rpc = "yamlToJSON"
    /\ crashed = ""
    /\ \E r \in {yamlToJSON(buf)} :
           /\ stages' = Append(stages, Stage("yamlToJSON", buf, r.val,
                                             IF r.kind = "ok" THEN "nil" ELSE r.err))
           /\ resolveRet' = IF r.kind = "ok" THEN ResolveReturn(r.val, "nil")
                            ELSE ResolveError(buf, r.err)
    /\ rpc' = "returned"
    /\ UNCHANGED << tmplJSON, context, ctx, funcMap, rTemplateStr, tmpl, buf,
                    cryptoVars, callVars, configVars, pipeVars >>

ResolveNext ==
    \/ GetValidContext
    \/ BuildFuncMap
    \/ JSONToYAML
    \/ DecryptPass
    \/ DecryptReturn
    \/ ProcessForDataTypes
    \/ ProcessForAutoIndent
    \/ Parse
    \/ ExecuteTemplate
    \/ YAMLToJSON
    \/ PipeNext

ResolveIdle ==
    /\ rpc = "idle"
    /\ tmplJSON = <<>>
    /\ context = [kind |-> "nil", fields |-> <<>>]
    /\ ctx = [kind |-> "nil", fields |-> <<>>]
    /\ funcMap = <<>>
    /\ rTemplateStr = <<>>
    /\ tmpl = <<>>
    /\ buf = <<>>
    /\ resolveRet = ResolveReturn(<<>>, "nil")
    /\ stages = <<>>

CryptoIdle ==
    /\ cstage = "idle"
    /\ cplain = <<>>
    /\ cencCfg = ZeroEncCfg
    /\ cdecCfg = ZeroEncCfg
    /\ cprot = Ok(<<>>)
    /\ cdec = Ok(<<>>)

\* No call has returned
NoCallRet == [done |-> FALSE, b |-> FALSE, n |-> 0, val |-> <<>>, err |-> "nil"]

\* No ResolveOptions and no context for the hub templates
NoHubTemplateOpts ==
    [opts |-> [ClusterScopedAllowList |-> <<>>, LookupNamespace |-> ""],
     ctx |-> [ManagedClusterName |-> ""]]

\* ProcessTemplate was not called
CLIIdle ==
    /\ ptpc = "idle"
    /\ ptArgs = [hubKubeConfigPath |-> "", clusterName |-> "", hubNS |-> ""]
    /\ policy = [kind |-> "", namespace |-> "", serviceAccountName |-> "", entries |-> <<>>]
    /\ hubNS = ""
    /\ hubTemplateOpts = NoHubTemplateOpts
    /\ ptRet = [done |-> FALSE, err |-> "nil"]

\* No function was called
CallIdle ==
    /\ CLIIdle
    /\ call = [fn |-> "none", text |-> <<>>, startDelim |-> <<>>, stopDelim |-> <<>>,
               checkForEncrypted |-> FALSE]
    /\ callRet = NoCallRet

\* No call of NewResolver or SetEncryptionConfig was made yet
NoCall == [op |-> "none", arg |-> ZeroEncCfg, delims |-> << <<>>, <<>> >>, err |-> "nil"]

ConfigIdle ==
    /\ resolver = [isNil |-> TRUE, config |-> ZeroCfg]
    /\ ret = NoCall

ConfigInit ==
    /\ CallIdle
    /\ CryptoIdle
    /\ ConfigIdle
    /\ PipeIdle
    /\ ResolveIdle

\* t, err := NewResolver(kubeClient, kubeConfig, config); a failed call returns no
\* resolver and the one held is kept.
NewResolverOf(configs) ==
    \E kubeClientIsNil \in BOOLEAN, config \in configs :
        LET r == NewResolverResult(kubeClientIsNil, config)
        IN  /\ resolver' = IF r.err = "nil" THEN r.t ELSE resolver
            /\ ret' = [op |-> "NewResolver", arg |-> config.EncryptionConfig,
                       delims |-> << config.StartDelim, config.StopDelim >>, err |-> r.err]
            /\ UNCHANGED << cryptoVars, callVars, pipeVars, resolveVars >>

CallNewResolver == NewResolverOf(CfgPool)

\* err := t.SetEncryptionConfig(encryptionConfig)
SetEncryptionConfigOf(encryptionConfigs) ==
    /\ ~resolver.isNil
    /\ \E encryptionConfig \in encryptionConfigs :
        LET r == SetEncryptionConfigResult(resolver, encryptionConfig)
        IN  /\ resolver' = r.t
            /\ ret' = [op |-> "SetEncryptionConfig", arg |-> encryptionConfig,
                       delims |-> << <<>>, <<>> >>, err |-> r.err]
            /\ UNCHANGED << cryptoVars, callVars, pipeVars, resolveVars >>

CallSetEncryptionConfig == SetEncryptionConfigOf(EncCfgPool)

ConfigNext == CallNewResolver \/ CallSetEncryptionConfig

SpecConfig == ConfigInit /\ [][ConfigNext]_vars

\* What the spec requires of an EncryptionConfig in use
EncCfgWellFormed(ec) ==
    (ec.EncryptionEnabled \/ ec.DecryptionEnabled) =>
        /\ ~ec.AESKey.isNil
        /\ Len(ec.AESKey.b) \in {16, 24, 32}
        /\ ~ec.InitializationVector.isNil
        /\ Len(ec.InitializationVector.b) = 16
        /\ ec.AESKeyFallback.isNil \/ Len(ec.AESKeyFallback.b) \in {16, 24, 32}

\* C7: after any sequence of NewResolver and SetEncryptionConfig calls the
\* EncryptionConfig a resolver holds is well formed (with a flag set: the primary
\* key set and valid, the IV set and of 16 bytes, the fallback key unset or
\* valid); a call given a config that is not well formed fails and adopts
\* nothing, and SetEncryptionConfig adopts a config with both flags unset
\* whatever its keys and IV are.
C7_EncryptionConfigInvariant ==
    /\ ~resolver.isNil => EncCfgWellFormed(resolver.config.EncryptionConfig)
    /\ (ret.op # "none" /\ ~EncCfgWellFormed(ret.arg)) => ret.err # "nil"
    /\ ( /\ ret.op = "SetEncryptionConfig"
         /\ ~ret.arg.EncryptionEnabled
         /\ ~ret.arg.DecryptionEnabled ) =>
            (ret.err = "nil" /\ resolver.config.EncryptionConfig = ret.arg)

\* A resolver that held a well-formed config with decryption enabled and a
\* fallback key was just refused a config whose IV has 15 bytes.
C7_Witness ==
    /\ ~resolver.isNil
    /\ resolver.config.EncryptionConfig.DecryptionEnabled
    /\ resolver.config.EncryptionConfig.AESKeyFallback = Key24
    /\ ret.op = "SetEncryptionConfig"
    /\ ret.arg.InitializationVector = BadIV
    /\ ret.arg.EncryptionEnabled
    /\ ret.err = "ErrInvalidIV"

\* C8: a SetEncryptionConfig call either returns no error and the resolver then
\* holds exactly the EncryptionConfig given, or returns an error and the
\* resolver holds the EncryptionConfig it held before; either way the
\* delimiters, additionalIndentation, disabledFunctions and lookupNamespace are
\* as before.
C8_SetEncryptionConfigAtomic ==
    [][ ret'.op = "SetEncryptionConfig" =>
          /\ \/ /\ ret'.err = "nil"
                /\ resolver'.config.EncryptionConfig = ret'.arg
             \/ /\ ret'.err # "nil"
                /\ resolver'.config.EncryptionConfig = resolver.config.EncryptionConfig
          /\ resolver'.isNil = resolver.isNil
          /\ resolver'.config.StartDelim = resolver.config.StartDelim
          /\ resolver'.config.StopDelim = resolver.config.StopDelim
          /\ resolver'.config.AdditionalIndentation = resolver.config.AdditionalIndentation
          /\ resolver'.config.DisabledFunctions = resolver.config.DisabledFunctions
          /\ resolver'.config.LookupNamespace = resolver.config.LookupNamespace ]_vars

\* A resolver with custom delimiters and an encrypting config was given a config
\* without a key, which it refused: it still holds the config it had, which
\* is not the one given.
C8_Witness ==
    /\ ret.op = "SetEncryptionConfig"
    /\ ret.err = "ErrAESKeyNotSet"
    /\ resolver.config.StartDelim = hubStartDelim
    /\ resolver.config.EncryptionConfig.EncryptionEnabled
    /\ resolver.config.EncryptionConfig # ret.arg

(***************************************************************************)
(* protect and decrypt as calls: a value is protected by one resolver and  *)
(* the payload is decrypted by a resolver that holds the same IV, a        *)
(* primary key and possibly a fallback key.                                *)
(***************************************************************************)

CryptoInit ==
    /\ CallIdle
    /\ ConfigIdle
    /\ PipeIdle
    /\ ResolveIdle
    /\ cstage = "start"
    /\ cplain \in Plaintexts
    /\ \E iv \in {IV16, IV16b}, k \in ValidKeys, d \in ValidKeys, f \in ValidKeys \cup {NilSlice} :
          /\ cencCfg = EncCfg(k, NilSlice, iv, TRUE, FALSE, 0)
          /\ cdecCfg = EncCfg(d, f, iv, FALSE, TRUE, 0)
    /\ cprot = Ok(<<>>)
    /\ cdec = Ok(<<>>)

CallProtect ==
    /\ cstage = "start"
    /\ cprot' = protect(cencCfg, cplain)
    /\ cstage' = "protected"
    /\ UNCHANGED << cplain, cencCfg, cdecCfg, cdec, configVars, pipeVars, resolveVars, callVars >>

CallDecrypt ==
    /\ cstage = "protected"
    /\ cprot.kind = "ok"
    /\ cdec' = decrypt(cdecCfg, Payload(cprot.val))
    /\ cstage' = "decrypted"
    /\ UNCHANGED << cplain, cencCfg, cdecCfg, cprot, configVars, pipeVars, resolveVars, callVars >>

CryptoNext == CallProtect \/ CallDecrypt

SpecCrypto == CryptoInit /\ [][CryptoNext]_vars

\* decrypt of the protected payload under the decrypting resolver's IV and the key given
DecryptUnder(key) == decrypt([cdecCfg EXCEPT !.AESKey = key], Payload(cprot.val))

\* C1: key rotation. The decryption of a fragment reports failure only if the
\* primary key fails and the fallback key, when one is configured, fails too: a
\* fragment that the fallback key decrypts is decrypted.
C1_FallbackKeyRetried ==
    (cstage = "decrypted" /\ cdec.kind = "err") =>
        /\ DecryptUnder(cdecCfg.AESKey).kind = "err"
        /\ \/ cdecCfg.AESKeyFallback.isNil
           \/ DecryptUnder(cdecCfg.AESKeyFallback).kind = "err"

MaxConcurrency == 3

\* The EncryptionConfig of the resolver that decrypts
PipeEncCfg(concurrency) == EncCfg(Key16, NilSlice, IV16, FALSE, TRUE, concurrency)

\* The fragment that protect emits for plain under the decrypting resolver's key
Frag(plain) == protect(PipeEncCfg(0), plain).val

\* A fragment protected under another key: its decryption fails on the padding
FragOtherKey(plain) == protect(EncCfg(Key24, NilSlice, IV16, TRUE, FALSE, 0), plain).val

\* A fragment whose payload, one character, is not base64
FragBadB64 == protectedPrefix \o <<65>>

\* " "
Sp == <<32>>

\* "s1", "s2", "s3"
PlainS1 == <<115, 49>>

PlainS2 == <<115, 50>>

PlainS3 == <<115, 51>>

\* 47 bytes, which fill three blocks with one byte of padding
PlainX == Repeat(120, 47)

\* PlainX, a byte 1 and "y": its first three blocks are the padded PlainX, so that
\* Frag(PlainX) is a prefix of Frag(PlainXY)
PlainXY == PlainX \o <<1, 121>>

\* "n=" and then the text of the fragment of "s2"
PlainNested == <<110, 61>> \o Frag(PlainS2)

\* A fragment whose payload QUJD is the base64 of three bytes: fewer than a block
FragNotBlocks == protectedPrefix \o <<81, 85, 74, 68>>

\* The texts given to processEncryptedStrs
PipeTexts ==
    { Frag(PlainS1) \o Sp \o Frag(PlainS2),
      Frag(PlainS1) \o Sp \o Frag(PlainS2) \o Sp \o Frag(PlainS3),
      Frag(PlainS1) \o Sp \o Frag(PlainS1),
      Frag(PlainS1) \o Sp \o FragOtherKey(PlainS2) \o Sp \o Frag(PlainS3),
      FragOtherKey(PlainS1) \o Sp \o Frag(PlainS2),
      Frag(PlainS1) \o Sp \o FragOtherKey(PlainS2) \o Sp \o FragBadB64,
      Frag(PlainXY) \o Sp \o Frag(PlainX),
      Frag(PlainXY) \o Sp \o Frag(PlainX) \o Sp \o Frag(PlainX),
      Frag(PlainS1) \o Sp \o FragNotBlocks,
      Frag(PlainNested) \o Sp \o Frag(PlainS2),
      <<97, 58, 32, 98>> }

PipeInit ==
    /\ CallIdle
    /\ CryptoIdle
    /\ ResolveIdle
    /\ \E concurrency \in 0..MaxConcurrency :
          resolver = [isNil |-> FALSE,
                      config |-> Cfg(PipeEncCfg(concurrency), defaultStartDelim,
                                     defaultStopDelim, 0, <<>>, "")]
    /\ ret = NoCall
    /\ templateStr \in PipeTexts
    /\ cpc = "start"
    /\ submatches = <<>>
    /\ numWorkers = 0
    /\ pushed = 0
    /\ submatchesChan = NoChan
    /\ resultsChan = NoChan
    /\ ctxDone = FALSE
    /\ result = NoResult
    /\ processed = <<>>
    /\ processedResults = 0
    /\ passRet = NoReturn
    /\ wpc = <<>>
    /\ wresult = <<>>
    /\ crashed = ""
    /\ received = <<>>

SpecPipeline == PipeInit /\ [][PipeNext]_vars

\* The EncryptionConfig the pipeline runs under
PipeCfg == resolver.config.EncryptionConfig

\* The whole matches of the fragments whose decryption returns an error
FailedMatches ==
    { submatches[i][1] : i \in { j \in 1..Len(submatches) :
                                   decrypt(PipeCfg, submatches[j][2]).kind = "err" } }

\* Every fragment's decryption returns, with a plaintext or an error
EveryDecryptReturns ==
    \A i \in 1..Len(submatches) : decrypt(PipeCfg, submatches[i][2]).kind # "panic"

\* The coordinator has returned and every goroutine it started has returned
PipeDone == cpc = "returned" /\ \A w \in DOMAIN wpc : wpc[w] = "exited"

\* C2: no decryptWrapper goroutine ever sends on the closed results channel: a
\* goroutine that has its result after the cancellation takes the ctx.Done()
\* case and abandons the result.
C2_NoSendOnClosedChannel == crashed # "send on closed channel"

\* C3: fail-fast. When a fragment's decryption fails, what processEncryptedStrs
\* returns is an error and the empty text, the error is that of the first failed
\* result the coordinator received, and the match it names is a fragment whose
\* decryption failed.
C3_FailFast ==
    (cpc = "returned" /\ FailedMatches # {}) =>
        /\ passRet.err # "nil"
        /\ passRet.str = <<>>
        /\ passRet.match \in FailedMatches
        /\ \E i \in 1..Len(received) :
              /\ received[i].err # "nil"
              /\ \A j \in 1..(i - 1) : received[j].err = "nil"
              /\ passRet.err = received[i].err
              /\ passRet.match = received[i].match

\* Of three fragments the coordinator substituted one plaintext into the text it
\* was processing, then received a failed result, and returned the error with
\* the empty text while two goroutines were running.
C3_Witness ==
    /\ cpc = "returned"
    /\ Len(submatches) = 3
    /\ numWorkers >= 2
    /\ Len(received) >= 2
    /\ processed # templateStr
    /\ passRet.err # "nil"
    /\ passRet.str = <<>>

\* C4: every run of the pipeline ends with the coordinator returned and every
\* goroutine returned: as long as that is not the case, a step can be taken.
C4_RunsToCompletion ==
    EveryDecryptReturns =>
        \/ PipeDone
        \/ CoordinatorCanStep
        \/ \E w \in DOMAIN wpc : WorkerCanStep(w)

\* The text of the sequential run: the results are substituted in the order of
\* the fragments in the text
RECURSIVE SeqApply(_, _, _)
SeqApply(cfg, text, sms) ==
    IF sms = <<>> THEN text
    ELSE SeqApply(cfg, ApplyResult(text, WrapResult(Head(sms), decrypt(cfg, Head(sms)[2]))),
                  Tail(sms))

\* C5: when all fragments decrypt, the text returned is that of the sequential
\* run, for every DecryptionConcurrency and every order in which the results
\* reach the coordinator.
C5_SameAsSequential ==
    (cpc = "returned" /\ passRet.err = "nil") =>
        passRet.str = SeqApply(PipeCfg, templateStr, FindAllStringSubmatch(templateStr))

(***************************************************************************)
(* ResolveTemplate, called on documents with actions and fragments         *)
(***************************************************************************)

\* The documents given to ResolveTemplate: JSON objects of strings, in them
\* actions in the default delimiters and fragments, and a text cut short.
\* The actions are {{ "6" | toInt }}, {{ "true" | toBool }},
\* {{ "x" | autoindent }}, {{ "s1" | protect }}, {{ "!" | base64dec }}, whose
\* call fails, {{ "x" | blah }}, which names no function, {{ .Name }},
\* {{ "" | protect }}, {{ fromSecret "n" "s" "k" }}, and {{ blah "asdf" }}
\* under the key test. The documents without an action are a: b, a: toInt,
\* and the strings autoindent, true and x | toBool under a, b and c.
ResolveDocs ==
    LET Act(body) == defaultStartDelim \o Sp \o body \o Sp \o defaultStopDelim
        Lit(s) == <<34>> \o s \o <<34>>
        Piped(a, f) == a \o <<32, 124, 32>> \o f
        JSONObject(members) ==
            MarshalJSON(Object([i \in 1..Len(members) |->
                                   << members[i][1], YAMLValue("str", members[i][2]) >>]))
        KeyA == <<97>>
        KeyB == <<98>>
        KeyC == <<99>>
        ActToInt == Act(Piped(Lit(<<54>>), FuncText.toInt))
        ActToBool == Act(Piped(Lit(<<116, 114, 117, 101>>), FuncText.toBool))
        ActAutoIndent == Act(Piped(Lit(<<120>>), FuncText.autoindent))
        ActProtect == Act(Piped(Lit(PlainS1), FuncText.protect))
        ActBadBase64 == Act(Piped(Lit(<<33>>), FuncText.base64dec))
        ActUndefined == Act(Piped(Lit(<<120>>), <<98, 108, 97, 104>>))
        ActField == Act(<<46>> \o <<78, 97, 109, 101>>)
        ActProtectEmpty == Act(Piped(Lit(<<>>), FuncText.protect))
        ActBlah == Act(<<98, 108, 97, 104>> \o Sp \o Lit(<<97, 115, 100, 102>>))
        ActFromSecret == Act(FuncText.fromSecret \o Sp \o Lit(<<110>>) \o Sp \o Lit(<<115>>)
                               \o Sp \o Lit(<<107>>))
    IN  { JSONObject(<< << KeyA, <<98>> >> >>),
          JSONObject(<< << KeyA, ActToInt >> >>),
          JSONObject(<< << KeyA, ActToBool >> >>),
          JSONObject(<< << KeyA, FuncText.toInt >> >>),
          JSONObject(<< << KeyA, ActAutoIndent >> >>),
          JSONObject(<< << KeyA, ActProtect >> >>),
          JSONObject(<< << KeyA, ActField >> >>),
          JSONObject(<< << KeyA, Frag(PlainS1) >>, << KeyB, Frag(PlainS2) >> >>),
          JSONObject(<< << KeyA, ActProtect >>, << KeyB, Frag(ActAutoIndent) >>,
                        << KeyC, Frag(ActToInt) >> >>),
          JSONObject(<< << KeyA, FragOtherKey(PlainS1) >>, << KeyB, Frag(PlainS2) >> >>),
          JSONObject(<< << KeyA, Frag(<<120, 58, 32, 121>>) >> >>),
          JSONObject(<< << KeyA, ActUndefined >> >>),
          JSONObject(<< << KeyA, <<120>> >>, << KeyB, ActBadBase64 >> >>),
          JSONObject(<< << KeyA, ActProtectEmpty >> >>),
          JSONObject(<< << KeyA, ActFromSecret >> >>),
          JSONObject(<< << <<116, 101, 115, 116>>, ActBlah >> >>),
          JSONObject(<< << KeyA, FuncText.autoindent >>, << KeyB, <<116, 114, 117, 101>> >>,
                        << KeyC, <<120, 32, 124, 32>> \o FuncText.toBool >> >>),
          <<123, 34, 97, 34, 58>> }

\* The contexts given to ResolveTemplate: nil, struct{Name string}{"c1"},
\* struct{N int}{1}, and a string
ResolveContexts ==
    { Context("nil", <<>>),
      Context("struct", << << <<78, 97, 109, 101>>, <<99, 49>>, "string" >> >>),
      Context("struct", << << <<78>>, <<49>>, "int" >> >>),
      Context("string", <<>>) }

\* The DisabledFunctions of the resolvers: none, fromSecret and protect, and
\* toInt with a name that is no function
ResolveDisabled == { <<>>, <<"fromSecret", "protect">>, <<"toInt", "blah">> }

\* The delimiters given to NewResolver: unset, and {{hub with hub}}
ResolveDelims == { << <<>>, <<>> >>, << hubStartDelim, hubStopDelim >> }

\* The AdditionalIndentation of the resolvers
ResolveIndentations == {0, 2}

ResolveInit ==
    /\ CallIdle
    /\ CryptoIdle
    /\ PipeIdle
    /\ \E enc \in BOOLEAN, dec \in BOOLEAN, concurrency \in 0..MaxConcurrency,
          disabled \in ResolveDisabled, delims \in ResolveDelims,
          indentation \in ResolveIndentations :
          /\ dec \/ concurrency = 0
          /\ disabled = <<>> \/ concurrency = 0
          /\ delims[1] = <<>> \/ (concurrency = 0 /\ disabled = <<>>)
          /\ indentation = 0 \/ (concurrency = 0 /\ disabled = <<>> /\ delims[1] = <<>>)
          /\ resolver = NewResolverResult(FALSE,
                             Cfg(EncCfg(Key16, NilSlice, IV16, enc, dec, concurrency),
                                 delims[1], delims[2], indentation, disabled, "")).t
    /\ ret = NoCall
    /\ rpc = "start"
    /\ tmplJSON \in ResolveDocs
    /\ context \in ResolveContexts
    /\ ctx = Context("nil", <<>>)
    /\ funcMap = <<>>
    /\ rTemplateStr = <<>>
    /\ tmpl = <<>>
    /\ buf = <<>>
    /\ resolveRet = ResolveReturn(<<>>, "nil")
    /\ stages = <<>>

SpecResolve == ResolveInit /\ [][ResolveNext]_vars

\* The stages of a call that returns a document, decrypt among them when
\* DecryptionEnabled is set
C9_RequiredStages ==
    {"getValidContext", "jsonToYAML", "parse", "execute", "yamlToJSON"}
      \cup (IF resolver.config.EncryptionConfig.DecryptionEnabled THEN {"decrypt"} ELSE {})

\* C9: errors are fatal to a resolve call. A call that returns an error returns
\* the empty document; a non-empty document is returned only with a nil error
\* and only after every enabled stage has completed without error; a stage
\* that fails is the last stage that runs, and the call returns its failure.
C9_ErrorsAreFatal ==
    /\ (rpc = "returned" /\ resolveRet.err # "nil") => resolveRet.doc = <<>>
    /\ resolveRet.doc # <<>> =>
          /\ rpc = "returned"
          /\ resolveRet.err = "nil"
          /\ \A i \in 1..Len(stages) : stages[i].err = "nil"
          /\ C9_RequiredStages \subseteq { stages[i].stage : i \in 1..Len(stages) }
    /\ \A i \in 1..Len(stages) :
          stages[i].err # "nil" =>
              /\ i = Len(stages)
              /\ rpc = "returned"
              /\ resolveRet.err # "nil"
    /\ rpc # "returned" => resolveRet = ResolveReturn(<<>>, "nil")

\* The expansion failed after it had written text, and the call has returned
\* the error with the empty document
C9_Witness ==
    /\ rpc = "returned"
    /\ stages # <<>>
    /\ stages[Len(stages)].stage = "execute"
    /\ stages[Len(stages)].err # "nil"
    /\ stages[Len(stages)].out # <<>>
    /\ resolveRet.err # "nil"
    /\ resolveRet.doc = <<>>

\* The stage that follows the datatype-quote rewrite, or takes its place, on
\* the text t
C10_AfterDataTypes(t) ==
    IF Contains(t, <<97, 117, 116, 111, 105, 110, 100, 101, 110, 116>>)
    THEN "autoIndent" ELSE "parse"

\* The stage that follows the decrypt pass, or takes its place, on the text t
C10_AfterDecrypt(t) ==
    IF Contains(t, <<116, 111, 73, 110, 116>>) \/ Contains(t, <<116, 111, 66, 111, 111, 108>>)
    THEN "dataTypes" ELSE C10_AfterDataTypes(t)

\* The stage that runs after the stage st has completed
C10_Following(st) ==
    IF st.stage = "getValidContext" THEN "jsonToYAML"
    ELSE IF st.stage = "jsonToYAML"
         THEN IF resolver.config.EncryptionConfig.DecryptionEnabled THEN "decrypt"
              ELSE C10_AfterDecrypt(st.out)
    ELSE IF st.stage = "decrypt" THEN C10_AfterDecrypt(st.out)
    ELSE IF st.stage = "dataTypes" THEN C10_AfterDataTypes(st.out)
    ELSE IF st.stage = "autoIndent" THEN "parse"
    ELSE IF st.stage = "parse" THEN "execute"
    ELSE "yamlToJSON"

\* C10: the stages of a resolve call run in the order decrypt pass,
\* datatype-quote rewrite, autoindent rewrite, parse, expansion, each on the
\* output of the stage before it; the decrypt pass runs exactly when
\* DecryptionEnabled is set, the datatype-quote rewrite exactly when its input
\* contains toInt or toBool, the autoindent rewrite exactly when its input
\* contains autoindent. The template expanded is the parse of the rewritten
\* text, no stage but the conversion to JSON follows the expansion, and the
\* document returned is the conversion of what the expansion wrote.
C10_FixedStageOrder ==
    /\ \A i \in 1..(Len(stages) - 1) :
          /\ stages[i + 1].stage = C10_Following(stages[i])
          /\ stages[i].stage # "getValidContext" => stages[i + 1].in = stages[i].out
    /\ \A i \in 1..Len(stages) :
          /\ stages[i].stage = "jsonToYAML" => stages[i].in = tmplJSON
          /\ stages[i].stage = "execute" =>
                tmpl = ParseFrom(stages[i].in, 1, resolver.config.StartDelim,
                                 resolver.config.StopDelim, funcMap).nodes
          /\ stages[i].stage = "yamlToJSON" =>
                /\ i = Len(stages)
                /\ stages[i].err = "nil" => resolveRet.doc = stages[i].out
    /\ (rpc \in {"dataTypes", "autoIndent", "parse"} /\ stages # <<>>) =>
          rTemplateStr = stages[Len(stages)].out
    /\ rpc = "dataTypes" => stages[Len(stages)].stage \in {"jsonToYAML", "decrypt"}
    /\ rpc = "dataTypes" =>
          (stages[Len(stages)].stage = "decrypt"
             <=> resolver.config.EncryptionConfig.DecryptionEnabled)

\* A call has returned its document after every stage ran: the decrypt pass put
\* plaintext with toInt and autoindent into the text, both rewrites ran on it,
\* and the ciphertext that protect wrote during the expansion is in the
\* document returned
C10_Witness ==
    /\ rpc = "returned"
    /\ resolveRet.err = "nil"
    /\ { stages[i].stage : i \in 1..Len(stages) } =
          {"getValidContext", "jsonToYAML", "decrypt", "dataTypes", "autoIndent",
           "parse", "execute", "yamlToJSON"}
    /\ \E i \in 1..Len(stages) :
          /\ stages[i].stage = "decrypt"
          /\ ~Contains(stages[i].in, toIntName)
          /\ Contains(stages[i].out, toIntName)
    /\ \E i \in 1..Len(stages) :
          /\ stages[i].stage = "dataTypes"
          /\ stages[i].out # stages[i].in
    /\ \E i \in 1..Len(stages) :
          /\ stages[i].stage = "execute"
          /\ ~Contains(stages[i].in, protectedPrefix)
          /\ Contains(stages[i].out, protectedPrefix)
    /\ Contains(resolveRet.doc, protectedPrefix)

(***************************************************************************)
(* protect and pkcs7Pad on every plaintext                                  *)
(***************************************************************************)

\* C11: protect returns the empty string, without prefix and without error,
\* for the empty value; for every non-empty value under a valid key and a
\* 16-byte IV it returns the prefix $ocm_encrypted: followed by the standard
\* base64 encoding of a ciphertext whose length is a positive multiple of 16.
C11_ProtectOutputFormat ==
    cstage # "start" =>
        IF cplain = <<>> THEN cprot = Ok(<<>>)
        ELSE /\ cprot.kind = "ok"
             /\ OccursAt(cprot.val, protectedPrefix, 1)
             /\ B64Valid(Payload(cprot.val))
             /\ B64Encode(B64DecodeBytes(Payload(cprot.val))) = Payload(cprot.val)
             /\ Len(B64DecodeBytes(Payload(cprot.val))) > 0
             /\ Len(B64DecodeBytes(Payload(cprot.val))) % 16 = 0

\* A value of two blocks and one byte was protected: the prefix and the base64
\* of three blocks of ciphertext
C11_Witness ==
    /\ cstage = "protected"
    /\ Len(cplain) = 2 * IVSize + 1
    /\ cprot.kind = "ok"
    /\ OccursAt(cprot.val, protectedPrefix, 1)
    /\ Len(B64DecodeBytes(Payload(cprot.val))) = 3 * IVSize

\* C12: for every byte string x, pkcs7Pad(x, 16) starts with x, its length is
\* divisible by 16 and greater than that of x, its last byte n is in 1..16 and
\* its last n bytes all equal n; an x whose length is a multiple of 16 gets a
\* full block of 16 bytes of padding.
C12_PaddingBounds ==
    cstage # "start" =>
        LET padded == pkcs7Pad(cplain, 16)
            n == padded[Len(padded)]
        IN  /\ SubSeq(padded, 1, Len(cplain)) = cplain
            /\ Len(padded) % 16 = 0
            /\ Len(padded) > Len(cplain)
            /\ n >= 1 /\ n <= 16
            /\ n = Len(padded) - Len(cplain)
            /\ \A i \in (Len(padded) - n + 1)..Len(padded) : padded[i] = n
            /\ Len(cplain) % 16 = 0 => n = 16

\* A value of exactly two blocks was protected: its padding is a third block
\* of sixteen bytes 16
C12_Witness ==
    /\ cstage = "protected"
    /\ Len(cplain) = 32
    /\ Len(pkcs7Pad(cplain, 16)) = 48
    /\ pkcs7Pad(cplain, 16)[48] = 16
    /\ pkcs7Pad(cplain, 16)[33] = 16

(***************************************************************************)
(* The context, the registry and the delimiters of a resolve call          *)
(***************************************************************************)

\* The context given is a struct whose fields are all strings
C13_StringStruct ==
    /\ context.kind = "struct"
    /\ \A i \in 1..Len(context.fields) : context.fields[i][3] = "string"

\* C13: the validation of the context is the first step of a resolve call. A
\* nil context becomes the empty struct, a struct of string fields is the
\* data of the expansion unchanged, and with any other context the call
\* returns an error and the empty document with nothing else done: no
\* registry built, no text converted, decrypted, rewritten, parsed or
\* expanded, whatever the document holds.
C13_ContextValidatedFirst ==
    /\ stages # <<>> => stages[1].stage = "getValidContext"
    /\ rpc # "start" =>
          IF context.kind = "nil"
          THEN ctx = Context("struct", <<>>) /\ stages[1].err = "nil"
          ELSE IF C13_StringStruct
          THEN ctx = context /\ stages[1].err = "nil"
          ELSE /\ rpc = "returned"
               /\ resolveRet.err \in { "the input context must be a struct",
                                       "the input context must be a struct with string fields" }
               /\ resolveRet.doc = <<>>
               /\ Len(stages) = 1
               /\ DOMAIN funcMap = {}
               /\ cpc = "idle"
               /\ rTemplateStr = <<>>
               /\ tmpl = <<>>
               /\ buf = <<>>

\* A call with a struct that has an int field, on a document without any
\* template, has returned the error after its first step
C13_Witness ==
    /\ rpc = "returned"
    /\ context.kind = "struct"
    /\ ~C13_StringStruct
    /\ ~Contains(tmplJSON, defaultStartDelim)
    /\ ~Contains(tmplJSON, protectedPrefix)
    /\ Len(stages) = 1
    /\ resolveRet.err = "the input context must be a struct with string fields"

\* An action of the text, in the delimiters of the resolver, holds the word
C14_ActionNames(text, word) ==
    \E i \in 1..Len(text), j \in 1..Len(text) :
        /\ i < j
        /\ OccursAt(text, resolver.config.StartDelim, i)
        /\ OccursAt(text, word, j)
        /\ \A k \in i..j : ~OccursAt(text, resolver.config.StopDelim, k)

\* An action of the text pipes a value to protect
C14_PipesToProtect(text) == C14_ActionNames(text, <<124, 32>> \o FuncText.protect)

\* C14: the registry is bound by the encryption mode. With EncryptionEnabled
\* fromSecret is bound to fromSecretProtected and protect to the encrypt
\* function, and no call fails as not enabled; without it, decryption-only
\* included, fromSecret is the plain function and protect the stub: an
\* expansion that pipes a string to protect, the empty string included, fails
\* with ErrProtectNotEnabled and the call returns that error and the empty
\* document.
C14_RegistryByEncryptionMode ==
    LET enabled == resolver.config.EncryptionConfig.EncryptionEnabled
        disabled == Range(resolver.config.DisabledFunctions)
    IN  /\ DOMAIN funcMap # {} =>
              /\ "fromSecret" \notin disabled =>
                     /\ "fromSecret" \in DOMAIN funcMap
                     /\ funcMap["fromSecret"] = IF enabled THEN "fromSecretProtected"
                                                ELSE "fromSecret"
              /\ "protect" \notin disabled =>
                     /\ "protect" \in DOMAIN funcMap
                     /\ funcMap["protect"] = IF enabled THEN "protect" ELSE "protectStub"
        /\ \A i \in 1..Len(stages) :
              /\ enabled => stages[i].err # "ErrProtectNotEnabled"
              /\ (~enabled /\ stages[i].stage = "execute" /\ C14_PipesToProtect(stages[i].in)) =>
                     /\ stages[i].err = "ErrProtectNotEnabled"
                     /\ rpc = "returned"
                     /\ resolveRet = ResolveReturn(<<>>, "ErrProtectNotEnabled")

\* In the decryption-only mode a call on {{ "" | protect }} has returned the
\* error of the stub
C14_Witness ==
    /\ ~resolver.config.EncryptionConfig.EncryptionEnabled
    /\ resolver.config.EncryptionConfig.DecryptionEnabled
    /\ Contains(tmplJSON, <<92, 34, 92, 34, 32, 124, 32>> \o FuncText.protect)
    /\ rpc = "returned"
    /\ stages[Len(stages)].stage = "execute"
    /\ funcMap["protect"] = "protectStub"
    /\ funcMap["fromSecret"] = "fromSecret"
    /\ resolveRet = ResolveReturn(<<>>, "ErrProtectNotEnabled")

\* C15: no name of DisabledFunctions is in the registry of a call, fromSecret
\* and protect in either encryption mode included; and a template that
\* invokes a disabled function fails at the parse with function not defined:
\* the parse is the last stage, nothing is expanded and no function is called.
C15_DisabledFunctionsAbsent ==
    LET disabled == Range(resolver.config.DisabledFunctions)
    IN  /\ DOMAIN funcMap # {} => DOMAIN funcMap \cap disabled = {}
        /\ \A i \in 1..Len(stages) :
              (/\ stages[i].stage = "parse"
               /\ \E n \in disabled \cap DOMAIN FuncText :
                      C14_ActionNames(stages[i].in, FuncText[n])) =>
                  /\ stages[i].err = "function not defined"
                  /\ i = Len(stages)
                  /\ rpc = "returned"
                  /\ resolveRet = ResolveReturn(<<>>, "function not defined")
                  /\ tmpl = <<>>
                  /\ buf = <<>>

\* With EncryptionEnabled and protect disabled, the call on
\* {{ "s1" | protect }} has failed at the parse
C15_Witness ==
    /\ resolver.config.EncryptionConfig.EncryptionEnabled
    /\ "protect" \in Range(resolver.config.DisabledFunctions)
    /\ rpc = "returned"
    /\ stages[Len(stages)].stage = "parse"
    /\ C14_ActionNames(stages[Len(stages)].in, FuncText.protect)
    /\ DOMAIN funcMap # {}
    /\ "protect" \notin DOMAIN funcMap
    /\ "fromSecret" \notin DOMAIN funcMap
    /\ resolveRet = ResolveReturn(<<>>, "function not defined")

(***************************************************************************)
(* The message of a parse error                                            *)
(***************************************************************************)

\* The error that ResolveTemplate returns when the parse fails on a name that
\* is no function
C16_ErrorReturned ==
    parseErrorf(tmplJSON, NotDefinedError(rTemplateStr, 1, resolver.config.StartDelim,
                                          resolver.config.StopDelim, funcMap))

\* The map of a document as fmt prints it: map[k:v k:v], in the order of the keys
C16_MapRepr(members) ==
    LET sorted == SortMembers(members)
    IN  <<109, 97, 112, 91>>
          \o Join([i \in 1..Len(sorted) |->
                       (IF i > 1 THEN <<32>> ELSE <<>>) \o sorted[i][1] \o <<58>> \o sorted[i][2]])
          \o <<93>>

\* failed to parse the template map <repr>: template: tmpl:<line>: function
\* "<name>" not defined
C16_ClaimedMessage(members, line, name) ==
    <<102, 97, 105, 108, 101, 100, 32, 116, 111, 32, 112, 97, 114, 115, 101, 32, 116, 104,
    101, 32, 116, 101, 109, 112, 108, 97, 116, 101, 32, 109, 97, 112, 32>>
      \o C16_MapRepr(members)
      \o <<58, 32, 116, 101, 109, 112, 108, 97, 116, 101, 58, 32, 116, 109, 112, 108, 58>>
      \o Itoa(line)
      \o <<58, 32, 102, 117, 110, 99, 116, 105, 111, 110, 32, 34>>
      \o name
      \o <<34, 32, 110, 111, 116, 32, 100, 101, 102, 105, 110, 101, 100>>

\* The names a template of the documents can invoke
C16_Names == { FuncText[n] : n \in DOMAIN FuncText } \cup { <<98, 108, 97, 104>> }

\* C16: a call that fails at the parse on a name that is not in the registry
\* returns the error failed to parse the template map <repr of the input map>:
\* template: tmpl:<line>: function "<name>" not defined; on the document
\* test: '{{ blah "asdf" }}' the map is map[test:{{ blah "asdf" }}], the line 1
\* and the name blah.
C16_ParseErrorMessage ==
    (/\ rpc = "returned"
     /\ stages[Len(stages)].stage = "parse"
     /\ stages[Len(stages)].err = "function not defined") =>
        /\ \E line \in 1..Len(rTemplateStr), name \in C16_Names :
               C16_ErrorReturned = C16_ClaimedMessage(UnmarshalObject(tmplJSON).members, line, name)
        /\ Contains(tmplJSON, <<116, 101, 115, 116>>) =>
               C16_ErrorReturned =
                   <<102, 97, 105, 108, 101, 100, 32, 116, 111, 32, 112, 97, 114, 115,
                   101, 32, 116, 104, 101, 32, 116, 101, 109, 112, 108, 97, 116, 101, 32,
                   109, 97, 112, 32, 109, 97, 112, 91, 116, 101, 115, 116, 58, 123, 123,
                   32, 98, 108, 97, 104, 32, 34, 97, 115, 100, 102, 34, 32, 125, 125, 93,
                   58, 32, 116, 101, 109, 112, 108, 97, 116, 101, 58, 32, 116, 109, 112,
                   108, 58, 49, 58, 32, 102, 117, 110, 99, 116, 105, 111, 110, 32, 34, 98,
                   108, 97, 104, 34, 32, 110, 111, 116, 32, 100, 101, 102, 105, 110, 101,
                   100>>

(***************************************************************************)
(* A resolver over its life: NewResolver, SetEncryptionConfig and          *)
(* ResolveTemplate calls one after the other                               *)
(***************************************************************************)

\* The EncryptionConfig values of these calls: the 16-byte key without a
\* fallback, with the IV set or unset, and both flags set or both unset
LifeEncCfgPool ==
    { ec \in EncCfgPool : /\ ec.AESKey = Key16
                           /\ ec.AESKeyFallback = NilSlice
                           /\ ec.EncryptionEnabled = ec.DecryptionEnabled }

\* The Config values of these calls: each of the delimiters unset or set
LifeCfgPool ==
    { config \in CfgPool : /\ config.EncryptionConfig \in LifeEncCfgPool
                           /\ config.AdditionalIndentation = 0 }

\* The documents of these calls: those with fragments
LifeDocs == { d \in ResolveDocs : Contains(d, protectedPrefix) }

\* The contexts of these calls: nil, and a string
LifeContexts == { c \in ResolveContexts : c.kind # "struct" }

\* No call of ResolveTemplate is running, and none has crashed the process
BetweenCalls == rpc \in {"idle", "returned"} /\ crashed = ""

LifeNewResolver == BetweenCalls /\ NewResolverOf(LifeCfgPool)

LifeSetEncryptionConfig == BetweenCalls /\ SetEncryptionConfigOf(LifeEncCfgPool)

\* t.ResolveTemplate(tmplJSON, context) is called
CallResolveTemplate ==
    /\ BetweenCalls
    /\ ~resolver.isNil
    /\ rpc' = "start"
    /\ tmplJSON' \in LifeDocs
    /\ context' \in LifeContexts
    /\ ctx' = Context("nil", <<>>)
    /\ funcMap' = <<>>
    /\ rTemplateStr' = <<>>
    /\ tmpl' = <<>>
    /\ buf' = <<>>
    /\ resolveRet' = ResolveReturn(<<>>, "nil")
    /\ stages' = <<>>
    /\ templateStr' = <<>>
    /\ cpc' = "idle"
    /\ submatches' = <<>>
    /\ numWorkers' = 0
    /\ pushed' = 0
    /\ submatchesChan' = NoChan
    /\ resultsChan' = NoChan
    /\ ctxDone' = FALSE
    /\ result' = NoResult
    /\ processed' = <<>>
    /\ processedResults' = 0
    /\ passRet' = NoReturn
    /\ wpc' = <<>>
    /\ wresult' = <<>>
    /\ crashed' = ""
    /\ received' = <<>>
    /\ UNCHANGED << cryptoVars, callVars, configVars >>

LifeNext ==
    \/ LifeNewResolver
    \/ LifeSetEncryptionConfig
    \/ CallResolveTemplate
    \/ ResolveNext

SpecLife == ConfigInit /\ [][LifeNext]_vars

\* C17: NewResolver fails when exactly one of StartDelim and StopDelim is set,
\* adopts {{ and }} when both are unset and keeps them when both are set; the
\* resolver it returned has both delimiters non-empty, also after any
\* SetEncryptionConfig and ResolveTemplate calls and during them.
C17_DelimitersSet ==
    /\ ~resolver.isNil =>
          /\ resolver.config.StartDelim # <<>>
          /\ resolver.config.StopDelim # <<>>
    /\ ret.op = "NewResolver" =>
          /\ ((ret.delims[1] = <<>>) # (ret.delims[2] = <<>>)) => ret.err # "nil"
          /\ ret.err = "nil" =>
                << resolver.config.StartDelim, resolver.config.StopDelim >> =
                    IF ret.delims = << <<>>, <<>> >>
                    THEN << defaultStartDelim, defaultStopDelim >>
                    ELSE ret.delims

\* A resolver made with {{hub and hub}} was given another EncryptionConfig and
\* then resolved a document, decrypting its fragments
C17_Witness ==
    /\ ~resolver.isNil
    /\ resolver.config.StartDelim = hubStartDelim
    /\ resolver.config.StopDelim = hubStopDelim
    /\ ret.op = "SetEncryptionConfig"
    /\ ret.err = "nil"
    /\ rpc = "returned"
    /\ resolveRet.err = "nil"
    /\ \E i \in 1..Len(stages) : stages[i].stage = "decrypt"

(***************************************************************************)
(* Documents without templates                                             *)
(***************************************************************************)

\* The text holds neither the start delimiter of the resolver nor
\* $ocm_encrypted:
C18_NonTemplated(text) ==
    /\ ~Contains(text, resolver.config.StartDelim)
    /\ ~Contains(text, protectedPrefix)

\* Two JSON texts are the same object: the same keys with the same values
C18_SameDocument(a, b) ==
    LET Same(x, y) == x.ok /\ y.ok /\ SortMembers(x.members) = SortMembers(y.members)
    IN  Same(UnmarshalObject(a), UnmarshalObject(b))

\* C18: when the YAML text of the document holds neither the start delimiter
\* of the resolver nor $ocm_encrypted:, the decrypt pass, the datatype-quote
\* rewrite, the autoindent rewrite and the expansion each return the text
\* they were given, and the call returns the same document, under every
\* configuration, also when the text holds the words toInt, toBool or
\* autoindent.
C18_NonTemplatedRoundTrip ==
    ( /\ Len(stages) >= 2
      /\ stages[2].stage = "jsonToYAML"
      /\ stages[2].err = "nil"
      /\ C18_NonTemplated(stages[2].out) ) =>
        /\ \A i \in 3..Len(stages) :
              stages[i].stage \in {"decrypt", "dataTypes", "autoIndent", "parse", "execute"} =>
                  /\ stages[i].err = "nil"
                  /\ stages[i].in = stages[2].out
                  /\ stages[i].out = stages[2].out
        /\ rpc = "returned" =>
              /\ resolveRet.err = "nil"
              /\ C18_SameDocument(resolveRet.doc, tmplJSON)

\* With DecryptionEnabled, the document of the strings autoindent, true and
\* x | toBool went through the decrypt pass and both rewrites and was returned
C18_Witness ==
    /\ rpc = "returned"
    /\ resolver.config.EncryptionConfig.DecryptionEnabled
    /\ Contains(tmplJSON, FuncText.autoindent)
    /\ Contains(tmplJSON, FuncText.toBool)
    /\ Len(stages) >= 2
    /\ C18_NonTemplated(stages[2].out)
    /\ { stages[i].stage : i \in 1..Len(stages) } =
          { "getValidContext", "jsonToYAML", "decrypt", "dataTypes", "autoIndent", "parse",
            "execute", "yamlToJSON" }
    /\ resolveRet.err = "nil"
    /\ resolveRet.doc = tmplJSON

(***************************************************************************)
(* processForDataTypes and processForAutoIndent on YAML texts, and what    *)
(* ResolveTemplate does with the rewritten text                            *)
(***************************************************************************)

\* The action {{ "value" | fn }}
PipedAction(value, fn) ==
    defaultStartDelim \o <<32, 34>> \o value \o <<34, 32, 124, 32>> \o fn \o <<32>>
      \o defaultStopDelim

\* The entry key: with the action as its value, enclosed in the quote ' or ",
\* or on the line after the block-scalar header | |- > or >-, indented
DataTypeEntry(style, action) ==
    <<107, 101, 121, 58, 32>>
      \o (IF style \in { <<39>>, <<34>> } THEN style \o action \o style
          ELSE style \o NL \o Repeat(32, 4) \o action)

\* The styles of a value
ValueStyles == { <<39>>, <<34>>, <<124>>, <<124, 45>>, <<62>>, <<62, 45>> }

\* The actions {{ "1" | toBool }} and {{ "6" | toInt }}
DataTypeActions == { PipedAction(<<49>>, toBoolName), PipedAction(<<54>>, toIntName) }

\* What follows the entry: nothing, or the entry b: x on the next line
FollowingTexts == { <<>>, <<10, 98, 58, 32, 120, 10>> }

\* The texts given to processForDataTypes
DataTypeTexts ==
    { DataTypeEntry(style, action) \o rest :
        style \in ValueStyles, action \in DataTypeActions, rest \in FollowingTexts }

\* The line key: '{{ "v1" | fn }} {{ "v2" | fn }}' with spaces spaces after the
\* colon, for the values v1, v2, .. of the entry << key, spaces, values >>
AutoIndentLine(entry, Fn(_)) ==
    entry[1] \o <<58>> \o Repeat(32, entry[2]) \o <<39>>
      \o Join([i \in 1..Len(entry[3]) |->
                  (IF i > 1 THEN <<32>> ELSE <<>>) \o PipedAction(entry[3][i], Fn(entry[2]))])
      \o <<39>> \o NL

\* The text of the entries, one on each line
AutoIndentText(entries, Fn(_)) ==
    Join([i \in 1..Len(entries) |-> AutoIndentLine(entries[i], Fn)])

\* The entries of the texts given to processForAutoIndent: one action; the
\* same action at two indentations; two actions at two indentations; two
\* actions on one line; the value "autoindent"
AutoIndentEntries ==
    { << << <<97>>, 1, << <<120>> >> >> >>,
      << << <<97>>, 1, << <<120>> >> >>, << <<98>>, 3, << <<120>> >> >> >>,
      << << <<97>>, 3, << <<120>> >> >>, << <<98>>, 1, << <<121>> >> >> >>,
      << << <<97>>, 1, << <<120>>, <<121>> >> >> >>,
      << << <<97>>, 1, << autoindentName >> >> >> }

\* The texts given to processForAutoIndent
AutoIndentTexts ==
    LET Placeholder(spaces) == autoindentName
    IN  { AutoIndentText(entries, Placeholder) : entries \in AutoIndentEntries }

\* ResolveTemplate is about to rewrite a YAML text: the registry is built
RewriteInit ==
    /\ CallIdle
    /\ CryptoIdle
    /\ PipeIdle
    /\ \E indentation \in ResolveIndentations, delims \in ResolveDelims :
          resolver = NewResolverResult(FALSE,
                         Cfg(ZeroEncCfg, delims[1], delims[2], indentation, <<>>, "")).t
    /\ ret = NoCall
    /\ rpc = "dataTypes"
    /\ tmplJSON = <<>>
    /\ context = Context("nil", <<>>)
    /\ ctx = Context("struct", <<>>)
    /\ funcMap = FuncMap(resolver.config)
    /\ rTemplateStr \in DataTypeTexts \cup AutoIndentTexts
    /\ tmpl = <<>>
    /\ buf = <<>>
    /\ resolveRet = ResolveReturn(<<>>, "nil")
    /\ stages = <<>>

RewriteNext ==
    \/ ProcessForDataTypes
    \/ ProcessForAutoIndent
    \/ Parse
    \/ ExecuteTemplate
    \/ YAMLToJSON

SpecRewrite == RewriteInit /\ [][RewriteNext]_vars

\* C19: the datatype-quote rewrite turns every entry whose value is one action
\* piping to toInt or toBool, enclosed in single quotes, in double quotes, or
\* on the line under a | |- > or >- header, into the key's colon, one space and
\* the bare action, and leaves the text that follows unchanged; the value
\* then expands to a boolean or an integer, not a string.
C19_QuotesStripped ==
    resolver.config.StartDelim = defaultStartDelim =>
        \A style \in ValueStyles, action \in DataTypeActions, rest \in FollowingTexts :
            ( /\ stages # <<>>
              /\ stages[1].stage = "dataTypes"
              /\ stages[1].in = DataTypeEntry(style, action) \o rest ) =>
                /\ stages[1].out = <<107, 101, 121, 58, 32>> \o action \o rest
                /\ rpc = "returned" =>
                      /\ resolveRet.err = "nil"
                      /\ \/ Contains(resolveRet.doc, <<34, 107, 101, 121, 34, 58>> \o <<54>>)
                         \/ Contains(resolveRet.doc,
                                     <<34, 107, 101, 121, 34, 58>> \o <<116, 114, 117, 101>>)

\* C20: the autoindent rewrite leaves no action piping to autoindent, and each
\* action pipes to indent N with N the number of spaces before it on its line
\* minus AdditionalIndentation, negative or not: also for the same action at
\* two indentations, for two actions on one line and for the value
\* "autoindent".
C20_AutoIndentRewritten ==
    LET Placeholder(spaces) == autoindentName
        Indent(spaces) == indentSpace \o Itoa(spaces - resolver.config.AdditionalIndentation)
        OnePerLine(entries) == \A e \in 1..Len(entries) : Len(entries[e][3]) = 1
    IN  resolver.config.StartDelim = defaultStartDelim =>
            \A i \in 1..Len(stages) :
                stages[i].stage = "autoIndent" =>
                    /\ ~Contains(stages[i].out,
                                 <<124, 32>> \o autoindentName \o <<32>> \o defaultStopDelim)
                    /\ \A entries \in AutoIndentEntries :
                          ( /\ OnePerLine(entries)
                            /\ stages[i].in = AutoIndentText(entries, Placeholder) ) =>
                              stages[i].out = AutoIndentText(entries, Indent)

(***************************************************************************)
(* HasTemplate and UsesEncryption, which read a text and no resolver.      *)
(***************************************************************************)

\* HasTemplate with checkForEncrypted taken as set
HasTemplateAlwaysEncrypted(template, startDelim, checkForEncrypted) ==
    LET d == IF startDelim = <<>> THEN defaultStartDelim ELSE startDelim
    IN  Contains(template, d) \/ Contains(template, protectedPrefix)

\* HasTemplate: strings.Contains for the start delimiter and, when
\* checkForEncrypted is set, for protectedPrefix
HasTemplate(template, startDelim, checkForEncrypted) ==
    LET d == IF startDelim = <<>> THEN defaultStartDelim ELSE startDelim
    IN  IF Contains(template, d) THEN TRUE
        ELSE checkForEncrypted /\ Contains(template, protectedPrefix)

\* No line feed in s[a..b]: what .* can take
NoLineFeed(s, a, b) == \A i \in a..b : s[i] # 10

\* \s*fromSecret\s+.*D2 matches s from a on: the white space before the name
\* is taken whole, \s+ takes one or more characters of the white space after
\* it and .* takes the characters, none a line feed, up to a stop delimiter
FromSecretMatchAt(s, a, d2) ==
    LET NameAt(b) ==
            /\ OccursAt(s, FuncText.fromSecret, b)
            /\ \E k \in (b + Len(FuncText.fromSecret) + 1)..SpaceRunEnd(s, b + Len(FuncText.fromSecret)) :
                  \E q \in k..(Len(s) + 1) : OccursAt(s, d2, q) /\ NoLineFeed(s, k, q - 1)
    IN  NameAt(SpaceRunEnd(s, a))

\* UsesEncryption where protect may be followed by anything
ProtectMatchAtAnywhere(s, a, d2) ==
    \E r \in a..Len(s) :
        /\ s[r] = 124
        /\ NoLineFeed(s, a, r - 1)
        /\ OccursAt(s, FuncText.protect, SpaceRunEnd(s, r + 1))
        /\ Contains(Tail2(s, r), d2)

\* .*\|\s*protect\s*D2 matches s from a on: .* takes the characters, none a
\* line feed, up to a pipe, and the white space around the name is taken whole
ProtectMatchAt(s, a, d2) ==
    \E r \in a..Len(s) :
        /\ s[r] = 124
        /\ NoLineFeed(s, a, r - 1)
        /\ LET NameAt(e) ==
                   /\ OccursAt(s, FuncText.protect, e)
                   /\ OccursAt(s, d2, SpaceRunEnd(s, e + Len(FuncText.protect)))
           IN  NameAt(SpaceRunEnd(s, r + 1))

\* UsesEncryption: re.MatchString for
\* D1(\s*fromSecret\s+.*|.*\|\s*protect\s*)D2, a match starting anywhere
UsesEncryption(template, startDelim, stopDelim) ==
    LET d1 == IF startDelim = <<>> THEN defaultStartDelim ELSE startDelim
        d2 == IF stopDelim = <<>> THEN defaultStopDelim ELSE stopDelim
    IN  \E p \in 1..Len(template) :
            /\ OccursAt(template, d1, p)
            /\ \/ FromSecretMatchAt(template, p + Len(d1), d2)
               \/ ProtectMatchAt(template, p + Len(d1), d2)

(***************************************************************************)
(* The calls of the functions that read no resolver: HasTemplate and       *)
(* UsesEncryption on texts with one action, the coercions on strings and   *)
(* pkcs7Unpad on byte strings.                                             *)
(***************************************************************************)

\* The delimiters an action is written with
CallDelims == { << defaultStartDelim, defaultStopDelim >>, << hubStartDelim, hubStopDelim >> }

\* What stands between a delimiter and the body of an action: nothing, a
\* space, a line feed
CallWhiteSpaces == { <<>>, <<32>>, <<10>> }

\* The bodies of the actions:
\*   fromSecret "n" "s" "k"
\*   fromSecret
\*   x fromSecret "n"
\*   "x" | protect
\*   "x" |\nprotect
\*   "x"\n| protect
\*   "x" | protect | base64enc
\*   "x" | toInt
\*   fromSecretX "n"
\*   "x" | protectX
\*   "a" }} | protect
\*   fromSecret "n"\n"s"
\*   fromSecret\n"n"
ActionBodies ==
    { <<102, 114, 111, 109, 83, 101, 99, 114, 101, 116, 32, 34, 110, 34, 32, 34, 115, 34, 32, 34, 107, 34>>,
      <<102, 114, 111, 109, 83, 101, 99, 114, 101, 116>>,
      <<120, 32, 102, 114, 111, 109, 83, 101, 99, 114, 101, 116, 32, 34, 110, 34>>,
      <<34, 120, 34, 32, 124, 32, 112, 114, 111, 116, 101, 99, 116>>,
      <<34, 120, 34, 32, 124, 10, 112, 114, 111, 116, 101, 99, 116>>,
      <<34, 120, 34, 10, 124, 32, 112, 114, 111, 116, 101, 99, 116>>,
      <<34, 120, 34, 32, 124, 32, 112, 114, 111, 116, 101, 99, 116, 32, 124, 32, 98, 97, 115, 101, 54, 52, 101, 110, 99>>,
      <<34, 120, 34, 32, 124, 32, 116, 111, 73, 110, 116>>,
      <<102, 114, 111, 109, 83, 101, 99, 114, 101, 116, 88, 32, 34, 110, 34>>,
      <<34, 120, 34, 32, 124, 32, 112, 114, 111, 116, 101, 99, 116, 88>>,
      <<34, 97, 34, 32, 125, 125, 32, 124, 32, 112, 114, 111, 116, 101, 99, 116>>,
      <<102, 114, 111, 109, 83, 101, 99, 114, 101, 116, 32, 34, 110, 34, 10, 34, 115, 34>>,
      <<102, 114, 111, 109, 83, 101, 99, 114, 101, 116, 10, 34, 110, 34>> }

\* A ciphertext fragment on a line of its own: b: $ocm_encrypted:QUJD
FragmentLine == <<10, 98, 58, 32>> \o protectedPrefix \o <<81, 85, 74, 68>>

\* The texts with one action, with and without its stop delimiter, alone or
\* followed by a ciphertext fragment
ActionTexts ==
    { d[1] \o w1 \o body \o w2 \o (IF stop THEN d[2] ELSE <<>>) \o post :
        d \in CallDelims, w1 \in CallWhiteSpaces, body \in ActionBodies,
        w2 \in CallWhiteSpaces, stop \in BOOLEAN, post \in { <<>>, FragmentLine } }

\* The texts without a start delimiter: the empty text, a sentence, a
\* ciphertext fragment alone
PlainTexts ==
    { <<>>, <<32, 73, 32, 97, 109, 32, 97, 32, 115, 97, 109, 112, 108, 101, 32, 116, 101, 109, 112, 108, 97, 116, 101, 32>>,
      protectedPrefix \o <<81, 85, 74, 68>>, FragmentLine }

CallOf(fn, text, startDelim, stopDelim, checkForEncrypted) ==
    [fn |-> fn, text |-> text, startDelim |-> startDelim, stopDelim |-> stopDelim,
     checkForEncrypted |-> checkForEncrypted]

\* The delimiters given to a call: none, for the defaults, or the hub's
GivenDelims == { << <<>>, <<>> >>, << hubStartDelim, hubStopDelim >> }

HasTemplateCalls ==
    { CallOf("HasTemplate", text, d[1], <<>>, checkForEncrypted) :
        text \in ActionTexts \cup PlainTexts, d \in GivenDelims, checkForEncrypted \in BOOLEAN }

UsesEncryptionCalls ==
    { CallOf("UsesEncryption", text, d[1], d[2], FALSE) :
        text \in ActionTexts \cup PlainTexts, d \in GivenDelims }

CallHasTemplate ==
    /\ call.fn = "HasTemplate"
    /\ ~callRet.done
    /\ callRet' = [NoCallRet EXCEPT !.done = TRUE,
                                    !.b = HasTemplate(call.text, call.startDelim, call.checkForEncrypted)]
    /\ UNCHANGED << call, cliVars, cryptoVars, configVars, pipeVars, resolveVars >>

CallUsesEncryption ==
    /\ call.fn = "UsesEncryption"
    /\ ~callRet.done
    /\ callRet' = [NoCallRet EXCEPT !.done = TRUE,
                                    !.b = UsesEncryption(call.text, call.startDelim, call.stopDelim)]
    /\ UNCHANGED << call, cliVars, cryptoVars, configVars, pipeVars, resolveVars >>

\* The strings given to toBool, atoi and toInt:
\*   1 t T true TRUE True blah F false (empty) 0 tRuE TRue yes f 123 + - -5
\*   +7 007 0x1F 1_0 12a 2147483647 2147483648 -2147483648 -2147483649
\*   99999999999999999999999 99999999999999999999999x 9999999999x  1 010 08
\*   0X1f 0b101 0o17 0x _10 10_ 1__0 0x_1F 0_7 0xFFFFFFFFFFFFFFFFFz 0b -0
\*   -010 0x80000000 -0x80000000 -0x80000001 017777777777 0b12
CoercionStrings ==
    { <<49>>,
      <<116>>,
      <<84>>,
      <<116, 114, 117, 101>>,
      <<84, 82, 85, 69>>,
      <<84, 114, 117, 101>>,
      <<98, 108, 97, 104>>,
      <<70>>,
      <<102, 97, 108, 115, 101>>,
      <<>>,
      <<48>>,
      <<116, 82, 117, 69>>,
      <<84, 82, 117, 101>>,
      <<121, 101, 115>>,
      <<102>>,
      <<49, 50, 51>>,
      <<43>>,
      <<45>>,
      <<45, 53>>,
      <<43, 55>>,
      <<48, 48, 55>>,
      <<48, 120, 49, 70>>,
      <<49, 95, 48>>,
      <<49, 50, 97>>,
      <<50, 49, 52, 55, 52, 56, 51, 54, 52, 55>>,
      <<50, 49, 52, 55, 52, 56, 51, 54, 52, 56>>,
      <<45, 50, 49, 52, 55, 52, 56, 51, 54, 52, 56>>,
      <<45, 50, 49, 52, 55, 52, 56, 51, 54, 52, 57>>,
      <<57, 57, 57, 57, 57, 57, 57, 57, 57, 57, 57, 57, 57, 57, 57, 57, 57, 57, 57, 57, 57, 57, 57>>,
      <<57, 57, 57, 57, 57, 57, 57, 57, 57, 57, 57, 57, 57, 57, 57, 57, 57, 57, 57, 57, 57, 57, 57, 120>>,
      <<57, 57, 57, 57, 57, 57, 57, 57, 57, 57, 120>>,
      <<32, 49>>,
      <<48, 49, 48>>,
      <<48, 56>>,
      <<48, 88, 49, 102>>,
      <<48, 98, 49, 48, 49>>,
      <<48, 111, 49, 55>>,
      <<48, 120>>,
      <<95, 49, 48>>,
      <<49, 48, 95>>,
      <<49, 95, 95, 48>>,
      <<48, 120, 95, 49, 70>>,
      <<48, 95, 55>>,
      <<48, 120, 70, 70, 70, 70, 70, 70, 70, 70, 70, 70, 70, 70, 70, 70, 70, 70, 70, 122>>,
      <<48, 98>>,
      <<45, 48>>,
      <<45, 48, 49, 48>>,
      <<48, 120, 56, 48, 48, 48, 48, 48, 48, 48>>,
      <<45, 48, 120, 56, 48, 48, 48, 48, 48, 48, 48>>,
      <<45, 48, 120, 56, 48, 48, 48, 48, 48, 48, 49>>,
      <<48, 49, 55, 55, 55, 55, 55, 55, 55, 55, 55, 55>>,
      <<48, 98, 49, 50>> }

CoercionCalls ==
    { CallOf(fn, a, <<>>, <<>>, FALSE) : fn \in {"toBool", "atoi", "toInt"}, a \in CoercionStrings }

\* The template engine calls the function bound under call.fn with the string
CallCoercion ==
    /\ call.fn \in {"toBool", "atoi", "toInt"}
    /\ ~callRet.done
    /\ \E r \in { CallFunc(ZeroCfg, call.fn, << StrV(call.text) >>) } :
          callRet' = [NoCallRet EXCEPT !.done = TRUE, !.b = r.v.b, !.n = r.v.n,
                                       !.err = IF r.kind = "ok" THEN "nil" ELSE r.err]
    /\ UNCHANGED << call, cliVars, cryptoVars, configVars, pipeVars, resolveVars >>

\* The byte strings given to pkcs7Unpad: every string of one to four bytes
\* out of 0..4, and blocks that end with 16, 15 or 255
PaddedValues ==
    UNION { [1..n -> 0..4] : n \in 1..4 }
      \cup { Repeat(16, 16), Repeat(16, 15) \o <<15>>, Repeat(7, 9) \o Repeat(16, 7),
             Repeat(15, 16), Repeat(9, 31) \o <<1>>, Repeat(255, 16), Repeat(16, 17) }

Pkcs7UnpadCalls == { CallOf("pkcs7Unpad", v, <<>>, <<>>, FALSE) : v \in PaddedValues }

CallPkcs7Unpad ==
    /\ call.fn = "pkcs7Unpad"
    /\ ~callRet.done
    /\ \E r \in { pkcs7Unpad(call.text) } :
          callRet' = [NoCallRet EXCEPT !.done = TRUE, !.val = r.val,
                                       !.err = IF r.kind = "ok" THEN "nil" ELSE r.err]
    /\ UNCHANGED << call, cliVars, cryptoVars, configVars, pipeVars, resolveVars >>

Calls == HasTemplateCalls \cup UsesEncryptionCalls \cup CoercionCalls \cup Pkcs7UnpadCalls

CallInit ==
    /\ CLIIdle
    /\ CryptoIdle
    /\ ConfigIdle
    /\ PipeIdle
    /\ ResolveIdle
    /\ call \in Calls
    /\ callRet = NoCallRet

CallNext ==
    \/ CallHasTemplate
    \/ CallUsesEncryption
    \/ CallCoercion
    \/ CallPkcs7Unpad

SpecCall == CallInit /\ [][CallNext]_vars

\* The delimiter a call uses for the one given
DelimOr(given, default) == IF given = <<>> THEN default ELSE given

\* s occurs in text at some position
OccursIn(text, s) == \E i \in 1..(Len(text) + 1) : OccursAt(text, s, i)

\* C21: HasTemplate returns true if and only if the text contains the start
\* delimiter, {{ when none is given, or checkForEncrypted is set and the text
\* contains $ocm_encrypted:. With checkForEncrypted unset a text with only a
\* ciphertext fragment gives false, and the text without its stop delimiters
\* gives the same result.
C21_HasTemplateIff ==
    (call.fn = "HasTemplate" /\ callRet.done) =>
        LET d1 == DelimOr(call.startDelim, defaultStartDelim)
            d2 == IF call.startDelim = <<>> THEN defaultStopDelim ELSE hubStopDelim
        IN  /\ callRet.b <=> \/ OccursIn(call.text, d1)
                             \/ call.checkForEncrypted /\ OccursIn(call.text, protectedPrefix)
            /\ (~call.checkForEncrypted /\ ~OccursIn(call.text, d1)) => ~callRet.b
            /\ callRet.b = HasTemplate(ReplaceEvery(call.text, d2, <<>>), call.startDelim,
                                       call.checkForEncrypted)

\* HasTemplate returned false for a text that holds a ciphertext fragment and
\* no start delimiter, and true for a text whose action has no stop delimiter
C21_Witness ==
    /\ call.fn = "HasTemplate"
    /\ callRet.done
    /\ \/ /\ ~call.checkForEncrypted
          /\ OccursIn(call.text, protectedPrefix)
          /\ ~callRet.b
       \/ /\ callRet.b
          /\ ~OccursIn(call.text, defaultStopDelim)
          /\ ~OccursIn(call.text, protectedPrefix)

\* s without its leading white space
C22_TrimLeft(s) == Tail2(s, SpaceRunEnd(s, 1))

\* The body begins, after optional white space, with fromSecret and a white
\* space character
C22_BeginsFromSecret(body) ==
    LET name == FuncText.fromSecret
        Begins(t) == /\ Len(t) > Len(name)
                     /\ SubSeq(t, 1, Len(name)) = name
                     /\ IsSpace(t[Len(name) + 1])
    IN  Begins(C22_TrimLeft(body))

\* The body ends with a pipe, protect and optional white space around it
C22_EndsPipeProtect(body) ==
    \E r \in 1..Len(body) :
        /\ body[r] = 124
        /\ TrimSpace(SubSeq(body, r + 1, Len(body))) = FuncText.protect

\* The bodies between a start delimiter and a later stop delimiter of text
C22_Bodies(text, d1, d2) ==
    { SubSeq(text, p + Len(d1), q - 1) :
        << p, q >> \in { pq \in (1..Len(text)) \X (1..Len(text)) :
                          /\ OccursAt(text, d1, pq[1])
                          /\ pq[2] >= pq[1] + Len(d1)
                          /\ OccursAt(text, d2, pq[2]) } }

\* C22 as stated: usesEncryption returns true exactly when a line of the text
\* holds a delimited action, under the default delimiters when none is given,
\* whose body begins, after optional white space, with fromSecret and white
\* space, or ends with a pipe to protect and optional white space
C22_ActionOnOneLine ==
    (call.fn = "UsesEncryption" /\ callRet.done) =>
        LET d1 == DelimOr(call.startDelim, defaultStartDelim)
            d2 == DelimOr(call.stopDelim, defaultStopDelim)
            lines == SplitLines(call.text)
        IN  callRet.b <=>
              \E i \in 1..Len(lines) : \E body \in C22_Bodies(lines[i], d1, d2) :
                  C22_BeginsFromSecret(body) \/ C22_EndsPipeProtect(body)

\* The body is optional white space, fromSecret, one or more white space
\* characters and then characters none of which is a line feed
C22_FromSecretBody(body) ==
    LET name == FuncText.fromSecret
        Begins(t) ==
            /\ Len(t) > Len(name)
            /\ SubSeq(t, 1, Len(name)) = name
            /\ \E k \in 1..(Len(t) - Len(name)) :
                  /\ \A j \in 1..k : IsSpace(t[Len(name) + j])
                  /\ NoLineFeed(t, Len(name) + k + 1, Len(t))
    IN  Begins(C22_TrimLeft(body))

\* The body is characters none of which is a line feed, a pipe, and protect
\* with optional white space around it
C22_PipeProtectBody(body) ==
    \E r \in 1..Len(body) :
        /\ body[r] = 124
        /\ NoLineFeed(body, 1, r - 1)
        /\ TrimSpace(SubSeq(body, r + 1, Len(body))) = FuncText.protect

\* C22, amended: usesEncryption returns true exactly when the text holds a
\* start delimiter and a later stop delimiter, the defaults when none is
\* given, and the text between them is either optional white space,
\* fromSecret, white space and characters on one line, or characters on one
\* line, a pipe and protect with optional white space around it. The white
\* space may hold line feeds, so the action need not be on a single line.
C22_UsesEncryptionIff ==
    (call.fn = "UsesEncryption" /\ callRet.done) =>
        LET d1 == DelimOr(call.startDelim, defaultStartDelim)
            d2 == DelimOr(call.stopDelim, defaultStopDelim)
        IN  callRet.b <=>
              \E body \in C22_Bodies(call.text, d1, d2) :
                  C22_FromSecretBody(body) \/ C22_PipeProtectBody(body)

\* UsesEncryption returned true for an action that is on no single line, and
\* false for an action where protect is followed by another stage
C22_Witness ==
    /\ call.fn = "UsesEncryption"
    /\ callRet.done
    /\ LET d1 == DelimOr(call.startDelim, defaultStartDelim)
           d2 == DelimOr(call.stopDelim, defaultStopDelim)
           lines == SplitLines(call.text)
       IN  \/ /\ callRet.b
              /\ \A i \in 1..Len(lines) : C22_Bodies(lines[i], d1, d2) = {}
           \/ /\ ~callRet.b
              /\ OccursIn(call.text, d1)
              /\ OccursIn(call.text, <<124, 32>> \o FuncText.protect \o <<32, 124>>)

\* The strings for which the claim has toBool return true
C23_TrueStrings ==
    { <<49>>, <<116>>, <<84>>, <<116, 114, 117, 101>>, <<84, 82, 85, 69>>, <<84, 114, 117, 101>> }

\* a without its sign
C23_Unsigned(a) == IF a # <<>> /\ a[1] \in {43, 45} THEN Tail(a) ELSE a

C23_Negative(a) == a # <<>> /\ a[1] = 45

\* The digits of the largest int in a base
C23_MaxDigits(base) ==
    IF base = 2 THEN Repeat(1, 31)
    ELSE IF base = 8 THEN <<1>> \o Repeat(7, 10)
    ELSE IF base = 16 THEN <<7>> \o Repeat(15, 7)
    ELSE <<2, 1, 4, 7, 4, 8, 3, 6, 4, 7>>

\* The digits of the magnitude of the smallest int in a base
C23_MinDigits(base) ==
    IF base = 2 THEN <<1>> \o Repeat(0, 31)
    ELSE IF base = 8 THEN <<2>> \o Repeat(0, 10)
    ELSE IF base = 16 THEN <<8>> \o Repeat(0, 7)
    ELSE <<2, 1, 4, 7, 4, 8, 3, 6, 4, 8>>

\* The number that digits denote in the base, by the place of each digit
RECURSIVE C23_Value(_, _)
C23_Value(digits, base) ==
    IF digits = <<>> THEN 0
    ELSE digits[Len(digits)] + base * C23_Value(SubSeq(digits, 1, Len(digits) - 1), base)

\* The integer with the sign and the digits given, whether it is an int, and
\* the nearest int when it is not
C23_IntOf(neg, digits, base) ==
    LET Of(d) ==
            IF neg /\ d = C23_MinDigits(base) THEN [fits |-> TRUE, n |-> minInt]
            ELSE IF MagnitudeGreater(d, C23_MaxDigits(base))
            THEN [fits |-> FALSE, n |-> IF neg THEN minInt ELSE maxInt]
            ELSE [fits |-> TRUE, n |-> IF neg THEN -C23_Value(d, base) ELSE C23_Value(d, base)]
    IN  Of(StripZeros(digits))

\* The values of the bytes of s as digits
C23_Digits(s) == [i \in 1..Len(s) |-> DigitValue(s[i])]

C23_LeadingDigits(a) ==
    LET u == C23_Unsigned(a)
    IN  C23_Digits(SubSeq(u, 1, Least({ i \in 1..Len(u) : ~IsDigit(u[i]) } \cup { Len(u) + 1 }) - 1))

\* What atoi returns by the amended claim
C23_Atoi(a) ==
    LET Nearest(v) == v.n
    IN  IF \/ IsDecimalInt(a)
           \/ MagnitudeGreater(StripZeros(C23_LeadingDigits(a)), MaxUint64Digits(10))
        THEN Nearest(C23_IntOf(C23_Negative(a), C23_LeadingDigits(a), 10))
        ELSE 0

\* An integer as Go writes it, after the sign: the base by the prefix 0x, 0b,
\* 0o or a leading 0, and digits of the base with single underscores between
\* them, after the prefix or after the leading 0
C23_Literal(u) ==
    LET prefixed == Len(u) >= 3 /\ u[1] = 48 /\ LowerByte(u[2]) \in {98, 111, 120}
        base == IF prefixed THEN (IF LowerByte(u[2]) = 98 THEN 2 ELSE IF LowerByte(u[2]) = 111 THEN 8 ELSE 16)
                ELSE IF u # <<>> /\ u[1] = 48 THEN 8
                ELSE 10
        rest == IF prefixed THEN Tail2(u, 3) ELSE IF base = 8 THEN Tail(u) ELSE u
    IN  [ok |-> /\ u # <<>>
                /\ \A i \in 1..Len(rest) :
                      IF rest[i] = 95
                      THEN i < Len(rest) /\ rest[i + 1] # 95 /\ (i > 1 \/ base # 10)
                      ELSE DigitValue(rest[i]) < base,
         base |-> base,
         digits |-> C23_Digits(SelectSeq(rest, LAMBDA c : c # 95))]

\* What toInt returns for a string by the amended claim
C23_ToInt(a) ==
    LET Fitting(v) == IF v.fits THEN v.n ELSE 0
        Lit(l) == IF l.ok THEN Fitting(C23_IntOf(C23_Negative(a), l.digits, l.base)) ELSE 0
    IN  Lit(C23_Literal(C23_Unsigned(a)))

C24_WorkerCount ==
    cpc # "start" =>
        LET numMatches == Len(FindAllStringSubmatch(templateStr))
            concurrency == PipeCfg.DecryptionConcurrency
            atLeastOne == IF concurrency < 1 THEN 1 ELSE concurrency
        IN  IF numMatches = 0
            THEN /\ numWorkers = 0
                 /\ wpc = <<>>
                 /\ submatchesChan = NoChan
                 /\ resultsChan = NoChan
                 /\ cpc = "returned"
                 /\ passRet = [str |-> templateStr, err |-> "nil", match |-> <<>>]
            ELSE /\ numWorkers = Min(numMatches, atLeastOne)
                 /\ DOMAIN wpc = 1..numWorkers
                 /\ concurrency \in {0, 1} => numWorkers = 1
                 /\ numWorkers <= numMatches
                 /\ numWorkers <= atLeastOne

\* With DecryptionConcurrency 3 and two fragments two goroutines were started,
\* and both have run to their end
C24_Witness ==
    /\ PipeCfg.DecryptionConcurrency = 3
    /\ Len(submatches) = 2
    /\ numWorkers = 2
    /\ PipeDone

\* Every fragment of the text decrypts
C25_AllDecrypt == \A i \in 1..Len(submatches) : decrypt(PipeCfg, submatches[i][2]).kind = "ok"

\* The goroutines that hold a result they have not yet published
C25_Publishing == { w \in DOMAIN wpc : wpc[w] = "select" }

\* The result of the request submatch, as a goroutine builds it
C25_ResultOf(submatch) == WrapResult(submatch, decrypt(PipeCfg, submatch[2]))

\* The results of seq, in order
C25_Results(seq) == [i \in 1..Len(seq) |-> C25_ResultOf(seq[i])]

\* C25: when all fragments decrypt, every request pushed is in exactly one
\* place: waiting in the request channel, held as a result by one goroutine,
\* waiting in the result channel, or consumed by the coordinator; the
\* coordinator closes a channel only after it has consumed numMatches results
\* and only when it is open, no goroutine closes one, neither channel holds
\* more than numMatches items, and neither a push nor a publish finds its
\* channel full or closed.
C25_PipelineAccounting ==
    (C25_AllDecrypt /\ cpc \notin {"start", "idle"} /\ Len(submatches) > 0) =>
        LET numMatches == Len(submatches)
            held == [w \in C25_Publishing |-> wresult[w]]
            inFlight == C25_Results(submatchesChan.buf) \o resultsChan.buf \o received
        IN  /\ crashed = ""
            /\ pushed = Len(submatchesChan.buf) + Cardinality(C25_Publishing)
                          + Len(resultsChan.buf) + Len(received)
            /\ \A r \in Range(C25_Results(SubSeq(submatches, 1, pushed))) :
                  Cardinality({ i \in 1..pushed : C25_ResultOf(submatches[i]) = r })
                    = Cardinality({ i \in 1..Len(inFlight) : inFlight[i] = r })
                        + Cardinality({ w \in C25_Publishing : held[w] = r })
            /\ Len(received) = processedResults
            /\ processedResults <= numMatches
            /\ (submatchesChan.closed \/ resultsChan.closed) => processedResults = numMatches
            /\ resultsChan.closed => submatchesChan.closed
            /\ cpc = "closeSubmatches" => ~submatchesChan.closed /\ processedResults = numMatches
            /\ cpc = "closeResults" => ~resultsChan.closed /\ processedResults = numMatches
            /\ cpc \notin {"cancel", "errCloseSubmatches", "errCloseResults", "errReturn"}
            /\ cpc = "returned" => /\ processedResults = numMatches
                                   /\ submatchesChan.closed /\ resultsChan.closed
                                   /\ passRet.err = "nil"
            /\ Len(submatchesChan.buf) <= numMatches
            /\ Len(resultsChan.buf) <= numMatches
            /\ cpc = "push" => ~submatchesChan.closed /\ Len(submatchesChan.buf) < submatchesChan.cap
            /\ \A w \in C25_Publishing :
                  ~resultsChan.closed /\ Len(resultsChan.buf) < resultsChan.cap

\* Three fragments and two goroutines: one request waits in the channel, one
\* goroutine holds a result to publish, and one result waits for the coordinator
C25_Witness ==
    /\ C25_AllDecrypt
    /\ Len(submatches) = 3
    /\ numWorkers = 2
    /\ Len(submatchesChan.buf) = 1
    /\ Cardinality(C25_Publishing) = 1
    /\ Len(resultsChan.buf) = 1

\* strings.Count(s, p) for a non-empty p
RECURSIVE CountOf(_, _)
CountOf(s, p) ==
    LET at == Index(s, p)
    IN  IF at = 0 THEN 0 ELSE 1 + CountOf(Tail2(s, at + Len(p)), p)

\* The text after the results given were substituted, in their order
RECURSIVE C26_Substituted(_, _)
C26_Substituted(text, results) ==
    IF results = <<>> THEN text
    ELSE C26_Substituted(ApplyResult(text, Head(results)), Tail(results))

\* The positions of text where the fragment f stands: f is there and the
\* byte after it is none that a fragment holds
C26_FragmentAt(text, f) ==
    { p \in 1..Len(text) : /\ OccursAt(text, f, p)
                           /\ \/ p + Len(f) > Len(text)
                              \/ ~IsB64Class(text[p + Len(f)]) }

\* The fragments found more than once
C26_Duplicates ==
    { submatches[i][1] : i \in { j \in 1..Len(submatches) :
                                   \E k \in 1..Len(submatches) :
                                       k # j /\ submatches[k][1] = submatches[j][1] } }

\* C26: when a ciphertext fragment occurs m >= 2 times in the text, the
\* discovery yields m requests with that match, each of their results
\* replaces one occurrence of it, and after a successful decrypt pass all m
\* occurrences are replaced by the plaintext: no fragment that was found
\* remains in the text returned.
C26_DuplicatesReplaced ==
    (cpc # "start" /\ C26_Duplicates # {} /\ C25_AllDecrypt) =>
        /\ \A f \in C26_Duplicates :
              Cardinality({ i \in 1..Len(submatches) : submatches[i][1] = f })
                = Cardinality(C26_FragmentAt(templateStr, f))
        /\ \A k \in 1..Len(received) :
              LET before == C26_Substituted(templateStr, SubSeq(received, 1, k - 1))
                  after == C26_Substituted(templateStr, SubSeq(received, 1, k))
              IN  received[k].match \in C26_Duplicates =>
                      CountOf(after, received[k].match) = CountOf(before, received[k].match) - 1
        /\ (cpc = "returned" /\ passRet.err = "nil") =>
              \A i \in 1..Len(submatches) : ~Contains(passRet.str, submatches[i][1])

\* C27: pkcs7Unpad accepts a non-empty byte string exactly when its last byte
\* n is between 1 and the length and each of the last n bytes is n, and then
\* returns the string without its last n bytes; otherwise it returns no data
\* and the invalid-padding error: "the padding length is invalid" when n is 0
\* or greater than the length, "not all the padding bytes match" otherwise.
C27_UnpadAccepts ==
    (call.fn = "pkcs7Unpad" /\ callRet.done) =>
        LET v == call.text
            len == Len(v)
            n == v[len]
            lengthValid == 1 <= n /\ n <= len
            allMatch == \A i \in (len - n + 1)..len : v[i] = n
        IN  /\ callRet.err = "nil" <=> (lengthValid /\ allMatch)
            /\ callRet.err = "nil" => v = callRet.val \o Repeat(n, n)
            /\ callRet.err # "nil" => callRet.val = <<>>
            /\ ~lengthValid => callRet.err = "ErrInvalidPKCS7Padding: the padding length is invalid"
            /\ (lengthValid /\ ~allMatch) =>
                  callRet.err = "ErrInvalidPKCS7Padding: not all the padding bytes match"

\* pkcs7Unpad refused a string whose last byte is a valid length and whose
\* padding bytes differ, and accepted a full block of padding
C27_Witness ==
    /\ call.fn = "pkcs7Unpad"
    /\ callRet.done
    /\ \/ /\ callRet.err = "ErrInvalidPKCS7Padding: not all the padding bytes match"
          /\ Len(call.text) = 16
       \/ /\ callRet.err = "nil"
          /\ call.text = Repeat(16, 16)
          /\ callRet.val = <<>>

\* C28: for every payload that the discovery finds, decrypt ends with a
\* plaintext or an error; a payload that is valid base64 of a length that is
\* no multiple of the block size gives an error that fails the call, and
\* neither a goroutine nor the process is aborted.
C28_DecryptEndsWithValue ==
    cpc # "start" =>
        /\ \A i \in 1..Len(submatches) :
              decrypt(PipeCfg, submatches[i][2]).kind \in {"ok", "err"}
        /\ \A w \in DOMAIN wpc : wpc[w] = "panicked" => crashed = "send on closed channel"
        /\ crashed \in {"", "send on closed channel"}
        /\ (cpc = "returned" /\ \E i \in 1..Len(submatches) :
                                   /\ B64Valid(submatches[i][2])
                                   /\ Len(B64DecodeBytes(submatches[i][2])) % IVSize # 0) =>
              passRet.err # "nil"

\* ------------------------------------------------------------------------
\* ProcessTemplate of the template-resolver command
\* (cmd/template-resolver/utils/resolver_utils.go)
\*
\* The object read from the YAML input is a record of the fields the
\* function reads: its kind, its metadata.namespace,
\* spec.hubTemplateOptions.serviceAccountName, and its entries. An entry is
\* an object that can carry object templates: [kind, oTRawFound, oTRaw,
\* objTemplates]. For the kind Policy the entries are the objectDefinitions
\* of spec.policy-templates, for the kind ConfigurationPolicy the one entry
\* is the object itself, and for any other kind the one entry holds the
\* top-level key object-templates-raw. The clusters are the environment: a
\* connection or a resolution may fail, and a hub template resolves to a
\* value of HubValues.
\* ------------------------------------------------------------------------

\* The errors of ProcessTemplate
ErrKubeConfig == "failed to determine the kubeconfig to use"

ErrNoNamespace == "a namespace must be specified for hub templates, either in the input Policy or as an argument if spec.hubTemplateOptions.serviceAccountName is not specified"

ErrNamespaceMismatch == "the namespace specified in the Policy and the hub-namespace argument must match"

ErrNoHubNamespace == "a hub namespace must be provided when a hub kubeconfig is provided and spec.hubTemplateOptions.serviceAccountName is not specified"

ErrHubConnect ==
    { "failed to load the Hub kubeconfig",
      "failed to connect to the hub cluster",
      "failed to get the ManagedCluster object" }

ErrHubResolver == "failed to instantiate the hub template resolver"

ErrInvalidObject == "invalid object"

ErrResolver == "failed to instantiate the template resolver"

ErrInvalidYAML == "invalid YAML. Supported types: Policy, ConfigurationPolicy, object-templates-raw"

ErrInvalidRaw == "invalid object-templates-raw after resolving hub templates"

ErrUnresolvedHub == "unresolved hub template in YAML input. Use the -hub-kubeconfig argument"

ErrProcess == "failed to process the templates"

\* The namespace checks without the comparison of the two namespaces
HubNamespaceUnchecked(customSA, kind, namespace, hubNSArg) ==
    IF customSA # "" THEN [err |-> "nil", hubNS |-> hubNSArg]
    ELSE IF kind = "Policy"
    THEN IF hubNSArg = "" /\ namespace = ""
         THEN [err |-> ErrNoNamespace, hubNS |-> hubNSArg]
         ELSE [err |-> "nil", hubNS |-> IF namespace # "" THEN namespace ELSE hubNSArg]
    ELSE IF hubNSArg = ""
    THEN [err |-> ErrNoHubNamespace, hubNS |-> hubNSArg]
    ELSE [err |-> "nil", hubNS |-> hubNSArg]

\* The namespace checks of ProcessTemplate when a hub kubeconfig is given:
\* the error returned ("nil" for none) and the value of hubNS after them
HubNamespaceOf(customSA, kind, namespace, hubNSArg) ==
    IF customSA # "" THEN [err |-> "nil", hubNS |-> hubNSArg]
    ELSE IF kind = "Policy"
    THEN IF hubNSArg = "" /\ namespace = ""
         THEN [err |-> ErrNoNamespace, hubNS |-> hubNSArg]
         ELSE IF hubNSArg # "" /\ namespace # "" /\ hubNSArg # namespace
         THEN [err |-> ErrNamespaceMismatch, hubNS |-> hubNSArg]
         ELSE [err |-> "nil", hubNS |-> IF namespace # "" THEN namespace ELSE hubNSArg]
    ELSE IF hubNSArg = ""
    THEN [err |-> ErrNoHubNamespace, hubNS |-> hubNSArg]
    ELSE [err |-> "nil", hubNS |-> hubNSArg]

\* The ResolveOptions of the hub templates when no service account is named
HubResolveOptions(name, namespace) ==
    [ClusterScopedAllowList |->
         << [Group |-> "cluster.open-cluster-management.io",
             Kind |-> "ManagedCluster",
             Name |-> name] >>,
     LookupNamespace |-> namespace]

\* A text with every hub template from position at on replaced by value
RECURSIVE HubResolvedFrom(_, _, _)
HubResolvedFrom(text, at, value) ==
    LET start == IndexFrom(text, hubStartDelim, at)
        stop == IF start = 0 THEN 0
                ELSE IndexFrom(text, hubStopDelim, start + Len(hubStartDelim))
    IN  IF start = 0 \/ stop = 0 THEN text
        ELSE HubResolvedFrom(
                 SubSeq(text, 1, start - 1) \o value
                     \o SubSeq(text, stop + Len(hubStopDelim), Len(text)),
                 start + Len(value), value)

\* An entry after the hub templates of its texts were resolved
HubResolvedEntry(entry, value) ==
    [entry EXCEPT
        !.oTRaw = HubResolvedFrom(@, 1, value),
        !.objTemplates = [i \in 1..Len(@) |-> HubResolvedFrom(@[i], 1, value)]]

\* resolveObjTemplates: the error returned ("nil" for none). failing is the
\* set of the texts whose resolution on the managed cluster fails.
resolveObjTemplates(isRawTemplates, rawDataList, failing) ==
    LET refused == { i \in 1..Len(rawDataList) :
                       \/ Contains(rawDataList[i], hubStartDelim)
                       \/ rawDataList[i] \in failing }
    IN  IF refused = {} THEN "nil"
        ELSE IF Contains(rawDataList[Least(refused)], hubStartDelim)
        THEN ErrUnresolvedHub
        ELSE ErrProcess

\* The rawDataList that processObjectTemplates builds from an objectDefinition
RawDataListOf(objectDefinition) ==
    IF objectDefinition.oTRawFound
    THEN << objectDefinition.oTRaw >>
    ELSE objectDefinition.objTemplates

\* processObjectTemplates: the error returned
processObjectTemplates(objectDefinition, failing) ==
    resolveObjTemplates(objectDefinition.oTRawFound,
                        RawDataListOf(objectDefinition), failing)

\* processPolicyTemplate: the error returned. The entries that are no
\* ConfigurationPolicy are skipped; the first error ends the loop.
processPolicyTemplate(policyTemplates, failing) ==
    LET erring == { i \in 1..Len(policyTemplates) :
                      /\ policyTemplates[i].kind = "ConfigurationPolicy"
                      /\ processObjectTemplates(policyTemplates[i], failing) # "nil" }
    IN  IF erring = {} THEN "nil"
        ELSE processObjectTemplates(policyTemplates[Least(erring)], failing)

\* processObjTemplatesRaw: the error returned
processObjTemplatesRaw(raw, failing) ==
    IF raw.oTRaw = <<>> THEN ErrInvalidRaw
    ELSE resolveObjTemplates(TRUE, << raw.oTRaw >>, failing)

\* The switch on the kind in ProcessTemplate: the error returned
ProcessKind(object, failing) ==
    IF object.kind = "Policy"
    THEN processPolicyTemplate(object.entries, failing)
    ELSE IF object.kind = "ConfigurationPolicy"
    THEN processObjectTemplates(object.entries[1], failing)
    ELSE IF ~object.entries[1].oTRawFound
    THEN ErrInvalidYAML
    ELSE processObjTemplatesRaw(object.entries[1], failing)

\* The object-template texts of an object that the managed stage resolves
ManagedTexts(object) ==
    IF object.kind = "Policy"
    THEN UNION { { RawDataListOf(object.entries[i])[k] :
                       k \in 1..Len(RawDataListOf(object.entries[i])) } :
                 i \in { j \in 1..Len(object.entries) :
                           object.entries[j].kind = "ConfigurationPolicy" } }
    ELSE IF object.kind = "ConfigurationPolicy"
    THEN { RawDataListOf(object.entries[1])[k] :
               k \in 1..Len(RawDataListOf(object.entries[1])) }
    ELSE IF object.entries[1].oTRawFound /\ object.entries[1].oTRaw # <<>>
    THEN { object.entries[1].oTRaw }
    ELSE {}

\* The texts of the inputs: "a: b", "a: {{hub .M hub}}" and "a: {{ .x }}"
TextPlain == <<97, 58, 32, 98>>

TextHub == <<97, 58, 32>> \o hubStartDelim \o <<32, 46, 77, 32>> \o hubStopDelim

TextManaged == <<97, 58, 32, 123, 123, 32, 46, 120, 32, 125, 125>>

\* The values a hub template resolves to: "c" and the text "{{hub"
HubValues == { <<99>>, hubStartDelim }

\* An entry with a list of object templates, and one with a raw text
ListEntry(kind, objTemplates) ==
    [kind |-> kind, oTRawFound |-> FALSE, oTRaw |-> <<>>, objTemplates |-> objTemplates]

RawEntry(kind, oTRaw) ==
    [kind |-> kind, oTRawFound |-> TRUE, oTRaw |-> oTRaw, objTemplates |-> <<>>]

\* The entries of the input objects
ConfigPolicyEntries ==
    { ListEntry("ConfigurationPolicy", << TextPlain >>),
      ListEntry("ConfigurationPolicy", << TextManaged, TextHub >>),
      ListEntry("ConfigurationPolicy", << >>),
      RawEntry("ConfigurationPolicy", TextHub),
      RawEntry("ConfigurationPolicy", TextManaged) }

OtherEntries ==
    { RawEntry("", TextHub), RawEntry("", TextPlain), RawEntry("", <<>>),
      ListEntry("", << TextPlain >>) }

PolicyEntries ==
    { << e >> : e \in ConfigPolicyEntries }
        \cup { << ListEntry("Gatekeeper", << TextHub >>), e >> : e \in ConfigPolicyEntries }
        \cup { << ListEntry("ConfigurationPolicy", << TextPlain >>),
                  ListEntry("ConfigurationPolicy", << TextHub >>) >> }

\* The namespaces and the service accounts of the inputs
Namespaces == { "", "ns1", "ns2" }

ServiceAccounts == { "", "sa" }

\* The objects read from the input
Policies ==
    { [kind |-> "Policy", namespace |-> ns, serviceAccountName |-> sa, entries |-> es] :
          ns \in { "", "ns1" }, sa \in ServiceAccounts, es \in PolicyEntries }
        \cup { [kind |-> "ConfigurationPolicy", namespace |-> ns,
                serviceAccountName |-> sa, entries |-> << e >>] :
                   ns \in { "", "ns1" }, sa \in ServiceAccounts, e \in ConfigPolicyEntries }
        \cup { [kind |-> "ObjectTemplates", namespace |-> "",
                serviceAccountName |-> sa, entries |-> << e >>] :
                   sa \in ServiceAccounts, e \in OtherEntries }

\* ProcessTemplate returns err
PTReturn(err) ==
    /\ ptpc' = "returned"
    /\ ptRet' = [done |-> TRUE, err |-> err]

\* ProcessTemplate is called: the input is read and the kubeconfig of the
\* managed cluster is determined, which may fail
PTKubeConfig ==
    /\ ptpc = "kubeConfig"
    /\ \/ /\ PTReturn(ErrKubeConfig)
       \/ /\ ptpc' = "hubNamespace"
          /\ UNCHANGED ptRet
    /\ UNCHANGED << ptArgs, policy, hubNS, hubTemplateOpts >>
    /\ UNCHANGED << call, callRet, cryptoVars, configVars, pipeVars, resolveVars >>

\* The namespace checks of the hub stage, skipped with the whole hub stage
\* when no hub kubeconfig is given
PTHubNamespace ==
    /\ ptpc = "hubNamespace"
    /\ IF ptArgs.hubKubeConfigPath = ""
       THEN /\ ptpc' = "managed"
            /\ UNCHANGED << hubNS, ptRet >>
       ELSE \E r \in { HubNamespaceOf(policy.serviceAccountName, policy.kind,
                                      policy.namespace, hubNS) } :
                IF r.err # "nil"
                THEN /\ PTReturn(r.err)
                     /\ UNCHANGED hubNS
                ELSE /\ hubNS' = r.hubNS
                     /\ ptpc' = "hubConnect"
                     /\ UNCHANGED ptRet
    /\ UNCHANGED << ptArgs, policy, hubTemplateOpts >>
    /\ UNCHANGED << call, callRet, cryptoVars, configVars, pipeVars, resolveVars >>

\* The hub kubeconfig is loaded, the hub is connected to and the
\* ManagedCluster object is read: each may fail
PTHubConnect ==
    /\ ptpc = "hubConnect"
    /\ \/ \E err \in ErrHubConnect : PTReturn(err)
       \/ /\ ptpc' = "hubOptions"
          /\ UNCHANGED ptRet
    /\ UNCHANGED << ptArgs, policy, hubNS, hubTemplateOpts >>
    /\ UNCHANGED << call, callRet, cryptoVars, configVars, pipeVars, resolveVars >>

\* The context and the ResolveOptions of the hub templates are set
PTHubOptions ==
    /\ ptpc = "hubOptions"
    /\ hubTemplateOpts' =
           [ctx |-> [ManagedClusterName |-> ptArgs.clusterName],
            opts |-> IF policy.serviceAccountName = ""
                     THEN HubResolveOptions(ptArgs.clusterName, hubNS)
                     ELSE hubTemplateOpts.opts]
    /\ ptpc' = "hubResolve"
    /\ UNCHANGED << ptArgs, policy, hubNS, ptRet >>
    /\ UNCHANGED << call, callRet, cryptoVars, configVars, pipeVars, resolveVars >>

\* The hub resolver is made and the hub templates of the object are
\* resolved: each may fail
PTHubResolve ==
    /\ ptpc = "hubResolve"
    /\ \/ /\ \E err \in { ErrHubResolver, ErrInvalidObject } : PTReturn(err)
          /\ UNCHANGED policy
       \/ /\ \E value \in HubValues :
                 policy' = [policy EXCEPT
                     !.entries = [i \in 1..Len(@) |-> HubResolvedEntry(@[i], value)]]
          /\ ptpc' = "managed"
          /\ UNCHANGED ptRet
    /\ UNCHANGED << ptArgs, hubNS, hubTemplateOpts >>
    /\ UNCHANGED << call, callRet, cryptoVars, configVars, pipeVars, resolveVars >>

\* The resolver of the managed cluster is made, which may fail, and the
\* object templates are resolved according to the kind of the object
PTManaged ==
    /\ ptpc = "managed"
    /\ \/ PTReturn(ErrResolver)
       \/ \E failing \in SUBSET { TextManaged } :
              \E err \in { ProcessKind(policy, failing) } :
                  IF err # "nil"
                  THEN PTReturn(err)
                  ELSE /\ ptpc' = "marshal"
                       /\ UNCHANGED ptRet
    /\ UNCHANGED << ptArgs, policy, hubNS, hubTemplateOpts >>
    /\ UNCHANGED << call, callRet, cryptoVars, configVars, pipeVars, resolveVars >>

\* The resolved object is written as YAML and returned
PTMarshal ==
    /\ ptpc = "marshal"
    /\ PTReturn("nil")
    /\ UNCHANGED << ptArgs, policy, hubNS, hubTemplateOpts >>
    /\ UNCHANGED << call, callRet, cryptoVars, configVars, pipeVars, resolveVars >>

CLIInit ==
    /\ CryptoIdle
    /\ ConfigIdle
    /\ PipeIdle
    /\ ResolveIdle
    /\ call = CallOf("none", <<>>, <<>>, <<>>, FALSE)
    /\ callRet = NoCallRet
    /\ ptpc = "kubeConfig"
    /\ ptArgs \in [hubKubeConfigPath : { "", "hub.kubeconfig" },
                   clusterName : { "cluster1" },
                   hubNS : Namespaces]
    /\ policy \in Policies
    /\ hubNS = ptArgs.hubNS
    /\ hubTemplateOpts = NoHubTemplateOpts
    /\ ptRet = [done |-> FALSE, err |-> "nil"]

CLINext ==
    \/ PTKubeConfig
    \/ PTHubNamespace
    \/ PTHubConnect
    \/ PTHubOptions
    \/ PTHubResolve
    \/ PTManaged
    \/ PTMarshal

SpecCLI == CLIInit /\ [][CLINext]_vars

\* The namespace errors of the hub stage
C29_NamespaceErrors == { ErrNoNamespace, ErrNamespaceMismatch, ErrNoHubNamespace }

\* The namespace checks of the call are behind it
C29_Checked ==
    /\ ptArgs.hubKubeConfigPath # ""
    /\ ptpc \notin { "idle", "kubeConfig", "hubNamespace" }
    /\ ptRet.err # ErrKubeConfig

\* The ResolveOptions of the hub stage were set
C29_OptionsSet ==
    \/ ptpc \in { "hubResolve", "managed", "marshal" }
    \/ ptRet.done /\ ptRet.err \notin C29_NamespaceErrors \cup ErrHubConnect

\* The checks passed: hub lookups are restricted to namespace and to the
\* named ManagedCluster
C29_Restricted(namespace) ==
    /\ ptRet.err \notin C29_NamespaceErrors
    /\ hubNS = namespace
    /\ C29_OptionsSet =>
           /\ hubTemplateOpts.opts.LookupNamespace = namespace
           /\ hubTemplateOpts.opts.ClusterScopedAllowList =
                  << [Group |-> "cluster.open-cluster-management.io",
                      Kind |-> "ManagedCluster",
                      Name |-> ptArgs.clusterName] >>

\* The call failed in the namespace checks with err
C29_Failed(err) ==
    /\ ptpc = "returned"
    /\ ptRet = [done |-> TRUE, err |-> err]
    /\ hubTemplateOpts = NoHubTemplateOpts

\* C29: in ProcessTemplate with a hub kubeconfig and no
\* spec.hubTemplateOptions.serviceAccountName, a Policy fails when neither
\* the hub-namespace argument nor the policy's namespace is set, fails when
\* both are set and differ, and otherwise has its hub lookups restricted to
\* the policy's namespace if set, else to the argument, with an allow-list
\* of only the named ManagedCluster; any other kind fails when the argument
\* is empty. With a service account name no namespace error is returned
\* and the ResolveOptions stay empty. The call never returns without an
\* error when an object-template text of the managed stage holds "{{hub".
C29_HubNamespace ==
    /\ (C29_Checked /\ policy.serviceAccountName = "" /\ policy.kind = "Policy") =>
           IF ptArgs.hubNS = "" /\ policy.namespace = ""
           THEN C29_Failed(ErrNoNamespace)
           ELSE IF /\ ptArgs.hubNS # ""
                   /\ policy.namespace # ""
                   /\ ptArgs.hubNS # policy.namespace
           THEN C29_Failed(ErrNamespaceMismatch)
           ELSE C29_Restricted(IF policy.namespace # ""
                               THEN policy.namespace
                               ELSE ptArgs.hubNS)
    /\ (C29_Checked /\ policy.serviceAccountName = "" /\ policy.kind # "Policy") =>
           IF ptArgs.hubNS = ""
           THEN C29_Failed(ErrNoHubNamespace)
           ELSE C29_Restricted(ptArgs.hubNS)
    /\ (C29_Checked /\ policy.serviceAccountName # "") =>
           /\ ptRet.err \notin C29_NamespaceErrors
           /\ hubTemplateOpts.opts =
                  [ClusterScopedAllowList |-> <<>>, LookupNamespace |-> ""]
    /\ (ptpc = "marshal" \/ (ptRet.done /\ ptRet.err = "nil")) =>
           \A text \in ManagedTexts(policy) : ~Contains(text, hubStartDelim)
    /\ (ptRet.done /\ ptRet.err = ErrUnresolvedHub) =>
           \E text \in ManagedTexts(policy) : Contains(text, hubStartDelim)

\* A Policy in the namespace ns1 with no hub-namespace argument had its
\* hub templates resolved in ns1, and the managed stage refused a text
\* that held "{{hub" after the hub stage
C29_Witness ==
    /\ ptRet = [done |-> TRUE, err |-> ErrUnresolvedHub]
    /\ ptArgs.hubKubeConfigPath # ""
    /\ ptArgs.hubNS = ""
    /\ policy.kind = "Policy"
    /\ policy.serviceAccountName = ""
    /\ policy.namespace = "ns1"
    /\ hubTemplateOpts.opts = HubResolveOptions(ptArgs.clusterName, "ns1")

====
